---- MODULE Spec2Model ----
(***************************************************************************)
(* Model of the fetch - cache - transform - query pipeline of the Ahaan    *)
(* Thai servers: the TTL cache, the fetchers of the four domains (shared   *)
(* library modules and stand-alone servers) and the URL/field transformers.*)
(*                                                                         *)
(* JavaScript strings are sequences of one-character strings, so that      *)
(* startsWith, includes, replace, trim and encodeURIComponent are computed *)
(* character by character.  A JavaScript object with optional fields is a  *)
(* function whose domain is the set of fields that are present.            *)
(***************************************************************************)
EXTENDS Integers, Sequences, FiniteSets, TLC

VARIABLES
  arg,      \* transformer harness: the record or link handed to a transformer
  res,      \* transformer harness: the results of its successive applications
  cache,    \* the cache slot: [data, timestamp]
  now,      \* Date.now()
  got,      \* Cache harness: what the last operation on the cache returned
  impl,     \* which fetchDataset implementation this process runs
  procs,    \* the queries in flight, one record per caller
  fetchSeq, \* number of network fetches issued so far
  stored    \* the last store into the cache slot: what, when, by which fetch

vars == <<arg, res, cache, now, got, impl, procs, fetchSeq, stored>>

(***************************************************************************)
(* Strings                                                                 *)
(***************************************************************************)

\* String.prototype.startsWith
StartsWith(s, p) == Len(p) <= Len(s) /\ SubSeq(s, 1, Len(p)) = p

\* String.prototype.endsWith
EndsWith(s, p) == Len(p) <= Len(s) /\ SubSeq(s, Len(s) - Len(p) + 1, Len(s)) = p

\* String.prototype.indexOf, 1-based; 0 when p does not occur in s
IndexOf(s, p) ==
  LET hits == {i \in 1..(Len(s) - Len(p) + 1) : SubSeq(s, i, i + Len(p) - 1) = p}
  IN  IF hits = {} THEN 0 ELSE CHOOSE i \in hits : \A j \in hits : i <= j

\* String.prototype.includes
Includes(s, p) == IndexOf(s, p) # 0

\* String.prototype.replace with a string pattern: the first occurrence only
Replace(s, p, r) ==
  LET i == IndexOf(s, p)
  IN  IF i = 0 THEN s
      ELSE SubSeq(s, 1, i - 1) \o r \o SubSeq(s, i + Len(p), Len(s))

\* String.prototype.substring(from), from 0-based
Substring(s, from) == SubSeq(s, from + 1, Len(s))

WhiteSpace == {" ", "\t", "\n"}

\* String.prototype.trim
Trim(s) ==
  LET keep == {i \in 1..Len(s) : s[i] \notin WhiteSpace}
  IN  IF keep = {} THEN <<>>
      ELSE SubSeq(s, CHOOSE i \in keep : \A j \in keep : i <= j,
                     CHOOSE i \in keep : \A j \in keep : i >= j)

\* a field that is present and truthy: a non-empty string
Truthy(obj, f) == f \in DOMAIN obj /\ obj[f] # <<>>

(***************************************************************************)
(* String literals of the source                                           *)
(***************************************************************************)

AMAZON_URL_PREFIX ==
  <<"h", "t", "t", "p", "s", ":", "/", "/", "a", "m", "z", "n", ".", "t", "o", "/">>

URL_PREFIX_DE_EN ==
  <<"h", "t", "t", "p", "s", ":", "/", "/", "w", "w", "w", ".", "a", "h", "a", "a", "n", "-", "t", "h", "a", "i", ".", "d", "e">>

IMAGE_URL_PREFIX ==
  <<"h", "t", "t", "p", "s", ":", "/", "/", "b", "i", "l", "d", "e", "r", ".", "k", "o", "c", "h", "-", "r", "e", "i", "s", ".", "d", "e", "/">>

BASE_URL ==
  <<"h", "t", "t", "p", "s", ":", "/", "/", "w", "w", "w", ".", "a", "h", "a", "a", "n", "-", "t", "h", "a", "i", ".", "d", "e">>

IMAGE_BASE_URL ==
  <<"h", "t", "t", "p", "s", ":", "/", "/", "b", "i", "l", "d", "e", "r", ".", "k", "o", "c", "h", "-", "r", "e", "i", "s", ".", "d", "e", "/", "m", "e", "d", "i", "a", "/">>

\* replacement of '/reiskoch/'
REISKOCH_HOST ==
  <<"h", "t", "t", "p", "s", ":", "/", "/", "w", "w", "w", ".", "d", "e", "r", "-", "r", "e", "i", "s", "k", "o", "c", "h", ".", "d", "e", "/">>

\* replacement of '/aa-pdf/'
PDF_PATH ==
  <<"/", "p", "d", "f", "/", "a", "n", "d", "r", "e", "a", "s", "-", "a", "y", "a", "s", "s", "e", "/">>

YOUTUBE_WATCH ==
  <<"h", "t", "t", "p", "s", ":", "/", "/", "w", "w", "w", ".", "y", "o", "u", "t", "u", "b", "e", ".", "c", "o", "m", "/", "w", "a", "t", "c", "h", "?", "v", "=">>

\* the translate proxy URL up to the target language
TRANSLATE_HEAD ==
  <<"h", "t", "t", "p", "s", ":", "/", "/", "t", "r", "a", "n", "s", "l", "a", "t", "e", ".", "g", "o", "o", "g", "l", "e", ".", "c", "o", "m", "/", "t", "r", "a", "n", "s", "l", "a", "t", "e", "?", "s", "l", "=", "t", "h", "&", "t", "l", "=">>

TRANSLATE_MID ==
  <<"&", "j", "s", "=", "y", "&", "p", "r", "e", "v", "=", "_", "t", "&", "h", "l", "=">>

TRANSLATE_TAIL ==
  <<"&", "i", "e", "=", "U", "T", "F", "-", "8", "&", "u", "=">>

S_amazon ==
  <<"a", "m", "a", "z", "o", "n">>

S_http ==
  <<"h", "t", "t", "p">>

S_httpColon ==
  <<"h", "t", "t", "p", ":", "/", "/">>

S_httpsColon ==
  <<"h", "t", "t", "p", "s", ":", "/", "/">>

S_reiskoch ==
  <<"/", "r", "e", "i", "s", "k", "o", "c", "h", "/">>

S_aapdf ==
  <<"/", "a", "a", "-", "p", "d", "f", "/">>

S_youtube ==
  <<"/", "y", "o", "u", "t", "u", "b", "e", "/">>

\* the part of the marker common to both languages
S_transTH ==
  <<"t", "r", "a", "n", "s", "=", "T", "H", "-">>

S_DE ==
  <<"D", "E">>

S_EN ==
  <<"E", "N">>

S_de ==
  <<"d", "e">>

S_en ==
  <<"e", "n">>

LowerLetters ==
  <<"a", "b", "c", "d", "e", "f", "g", "h", "i", "j", "k", "l", "m",
    "n", "o", "p", "q", "r", "s", "t", "u", "v", "w", "x", "y", "z">>

UpperLetters ==
  <<"A", "B", "C", "D", "E", "F", "G", "H", "I", "J", "K", "L", "M",
    "N", "O", "P", "Q", "R", "S", "T", "U", "V", "W", "X", "Y", "Z">>

\* String.prototype.toUpperCase
ToUpperCase(s) ==
  [i \in 1..Len(s) |->
     IF \E k \in 1..26 : LowerLetters[k] = s[i]
     THEN UpperLetters[CHOOSE k \in 1..26 : LowerLetters[k] = s[i]]
     ELSE s[i]]

\* String.prototype.toLowerCase
ToLowerCase(s) ==
  [i \in 1..Len(s) |->
     IF \E k \in 1..26 : UpperLetters[k] = s[i]
     THEN LowerLetters[CHOOSE k \in 1..26 : UpperLetters[k] = s[i]]
     ELSE s[i]]

\* Array.prototype.slice(0, end)
Slice(a, end) ==
  LET e == IF end < 0 THEN (IF Len(a) + end < 0 THEN 0 ELSE Len(a) + end)
           ELSE IF end > Len(a) THEN Len(a) ELSE end
  IN  SubSeq(a, 1, e)

\* Array.prototype.filter: the elements at the positions keep, in order
RECURSIVE Filter(_, _, _)
Filter(a, keep, i) ==
  IF i > Len(a) THEN <<>>
  ELSE (IF i \in keep THEN <<a[i]>> ELSE <<>>) \o Filter(a, keep, i + 1)

(***************************************************************************)
(* Book transformer                                                        *)
(***************************************************************************)

\* processBookData with the blank-target test left out: any non-empty target counts
processBookData_NoTrim(book) ==
  IF /\ "shop" \in DOMAIN book
     /\ book["shop"] = S_amazon
     /\ Truthy(book, "target")
  THEN [f \in (DOMAIN book \cup {"url"}) \ {"target"} |->
          IF f = "url" THEN AMAZON_URL_PREFIX \o book["target"] ELSE book[f]]
  ELSE book

\* processBookData(book): { ...book }, then for an Amazon book with a target
\* that is not blank, url = AMAZON_URL_PREFIX + target and target deleted
processBookData(book) ==
  IF /\ "shop" \in DOMAIN book
     /\ book["shop"] = S_amazon
     /\ Truthy(book, "target")
     /\ Trim(book["target"]) # <<>>
  THEN [f \in (DOMAIN book \cup {"url"}) \ {"target"} |->
          IF f = "url" THEN AMAZON_URL_PREFIX \o book["target"] ELSE book[f]]
  ELSE book

(***************************************************************************)
(* Recipe transformer                                                      *)
(***************************************************************************)

\* url_de / url_en: URL_PREFIX_DE_EN + (startsWith('/') ? '' : '/') + value
prefixSiteUrl(value) ==
  URL_PREFIX_DE_EN \o (IF StartsWith(value, <<"/">>) THEN <<>> ELSE <<"/">>) \o value

\* prefixImageUrl with the leading '/' kept
prefixImageUrl_NoStrip(value) == IMAGE_URL_PREFIX \o value

\* imageUrl: IMAGE_URL_PREFIX + (startsWith('/') ? substring(1) : value)
prefixImageUrl(value) ==
  IMAGE_URL_PREFIX \o (IF StartsWith(value, <<"/">>) THEN Substring(value, 1) ELSE value)

\* processRecipeUrls(recipe)
processRecipeUrls(recipe) ==
  [f \in DOMAIN recipe |->
     IF f \in {"url_de", "url_en"} /\ Truthy(recipe, f) /\ ~StartsWith(recipe[f], S_http)
     THEN prefixSiteUrl(recipe[f])
     ELSE IF f = "imageUrl" /\ Truthy(recipe, f) /\ ~StartsWith(recipe[f], S_http)
     THEN prefixImageUrl(recipe[f])
     ELSE recipe[f]]

(***************************************************************************)
(* Encyclopedia transformer                                                *)
(***************************************************************************)

\* the characters encodeURIComponent leaves alone
Unreserved ==
  {LowerLetters[k] : k \in 1..26} \cup {UpperLetters[k] : k \in 1..26}
    \cup {"0", "1", "2", "3", "4", "5", "6", "7", "8", "9"}
    \cup {"-", "_", ".", "!", "~", "*", "'", "(", ")"}

\* the percent escapes of the other ASCII characters that occur in links
PercentCode(c) ==
  CASE c = ":" -> <<"%", "3", "A">>
    [] c = "/" -> <<"%", "2", "F">>
    [] c = "?" -> <<"%", "3", "F">>
    [] c = "&" -> <<"%", "2", "6">>
    [] c = "=" -> <<"%", "3", "D">>
    [] c = "#" -> <<"%", "2", "3">>
    [] c = "%" -> <<"%", "2", "5">>
    [] c = " " -> <<"%", "2", "0">>

RECURSIVE encodeURIComponent(_)
encodeURIComponent(s) ==
  IF s = <<>> THEN <<>>
  ELSE (IF Head(s) \in Unreserved THEN <<Head(s)>> ELSE PercentCode(Head(s)))
         \o encodeURIComponent(Tail(s))

\* link.startsWith('http://') || link.startsWith('https://')
IsAbsolute(link) == StartsWith(link, S_httpColon) \/ StartsWith(link, S_httpsColon)

\* /trans=TH-(DE|EN)/.test(link)
HasTransMarker(link) ==
  Includes(link, S_transTH \o S_DE) \/ Includes(link, S_transTH \o S_EN)

\* s.replace(new RegExp(`\\?${transParam}(&|$)`), '?'): the leftmost '?' + transParam
\* that is followed by '&' or ends the string; the '&' is part of the match
replaceLeadingParam(s, transParam) ==
  LET pat  == <<"?">> \o transParam
      hits == {i \in 1..(Len(s) - Len(pat) + 1) :
                 /\ SubSeq(s, i, i + Len(pat) - 1) = pat
                 /\ \/ i + Len(pat) - 1 = Len(s)
                    \/ s[i + Len(pat)] = "&"}
  IN  IF hits = {} THEN s
      ELSE LET i == CHOOSE h \in hits : \A j \in hits : h <= j
               n == IF i + Len(pat) - 1 = Len(s) THEN Len(pat) ELSE Len(pat) + 1
           IN  SubSeq(s, 1, i - 1) \o <<"?">> \o SubSeq(s, i + n, Len(s))

\* s.replace(/\?$/, '')
dropTrailingQuestionMark(s) ==
  IF EndsWith(s, <<"?">>) THEN SubSeq(s, 1, Len(s) - 1) ELSE s

\* the cleaned URL that transformRecipeLink wraps: the three replace calls
cleanUrl(link, transParam) ==
  dropTrailingQuestionMark(
    Replace(replaceLeadingParam(link, transParam), <<"&">> \o transParam, <<>>))

\* a link rewrite that tests 'already a full URL' before the trans marker
transformRecipeLink_AbsoluteFirst(link) ==
  IF IsAbsolute(link) THEN link
  ELSE IF StartsWith(link, S_reiskoch) THEN Replace(link, S_reiskoch, REISKOCH_HOST)
  ELSE IF StartsWith(link, S_aapdf) THEN BASE_URL \o Replace(link, S_aapdf, PDF_PATH)
  ELSE IF StartsWith(link, S_youtube)
  THEN YOUTUBE_WATCH \o Replace(link, S_youtube, <<>>)
  ELSE BASE_URL \o link

\* transformRecipeLink(link)
transformRecipeLink(link) ==
  IF IsAbsolute(link) /\ HasTransMarker(link)
  THEN LET targetLang == IF Includes(link, S_transTH \o S_DE) THEN S_de ELSE S_en
           transParam == S_transTH \o ToUpperCase(targetLang)
       IN  TRANSLATE_HEAD \o targetLang \o TRANSLATE_MID \o targetLang
             \o TRANSLATE_TAIL \o encodeURIComponent(cleanUrl(link, transParam))
  ELSE IF IsAbsolute(link) THEN link
  ELSE IF StartsWith(link, S_reiskoch) THEN Replace(link, S_reiskoch, REISKOCH_HOST)
  ELSE IF StartsWith(link, S_aapdf) THEN BASE_URL \o Replace(link, S_aapdf, PDF_PATH)
  ELSE IF StartsWith(link, S_youtube)
  THEN YOUTUBE_WATCH \o Replace(link, S_youtube, <<>>)
  ELSE BASE_URL \o link

\* ensureTrailingSlash(url)
ensureTrailingSlash(url) ==
  IF Includes(url, <<"#">>) \/ Includes(url, <<"?">>) THEN url
  ELSE IF EndsWith(url, <<"/">>) THEN url ELSE url \o <<"/">>

\* a transformUrl that never adds the trailing slash
transformUrl_NoSlash(urlOrArray, addTrailingSlash) ==
  [isArray |-> urlOrArray.isArray,
   items   |-> [i \in 1..Len(urlOrArray.items) |->
                  transformRecipeLink(urlOrArray.items[i])]]

\* A link field holds one link or an array of links:
\* [isArray |-> BOOLEAN, items |-> the links]; a single link has one item.
\* transformUrl(urlOrArray, addTrailingSlash)
transformUrl(urlOrArray, addTrailingSlash) ==
  [isArray |-> urlOrArray.isArray,
   items   |-> [i \in 1..Len(urlOrArray.items) |->
                  IF addTrailingSlash
                  THEN ensureTrailingSlash(transformRecipeLink(urlOrArray.items[i]))
                  ELSE transformRecipeLink(urlOrArray.items[i])]]

recipeFields == {"recipes"}

relationshipFields ==
  {"url", "usedBy", "uses", "fits", "fittedBy", "variations", "variationOf"}

\* if (processed.de[field]): an array is truthy, a string when it is not empty
LinkFieldTruthy(sub, f) ==
  f \in DOMAIN sub /\ (sub[f].isArray \/ sub[f].items # <<<<>>>>)

\* the pass of processEntry over one language sub-object (de or en)
processLanguage(sub) ==
  [f \in DOMAIN sub |->
     IF f \in recipeFields /\ LinkFieldTruthy(sub, f) THEN transformUrl(sub[f], FALSE)
     ELSE IF f \in relationshipFields /\ LinkFieldTruthy(sub, f)
     THEN transformUrl(sub[f], TRUE)
     ELSE sub[f]]

\* processEntry(entry)
processEntry(entry) ==
  [f \in DOMAIN entry |->
     IF f \in {"de", "en"} THEN processLanguage(entry[f])
     ELSE IF f = "imageUrl" /\ Truthy(entry, f) /\ ~StartsWith(entry[f], S_http)
     THEN IMAGE_BASE_URL \o entry[f]
     ELSE entry[f]]

(***************************************************************************)
(* The TTL cache                                                           *)
(*                                                                         *)
(* A JavaScript value is [type, val]: val holds the characters of a        *)
(* primitive, or the content of an object or array.  The timestamp of a    *)
(* cache is 0 while it is null: Date.now() is positive.                    *)
(***************************************************************************)

NoData == [type |-> "null", val |-> <<>>]

\* the truthiness of a JavaScript value
JsTruthy(v) ==
  CASE v.type = "null"    -> FALSE
    [] v.type = "number"  -> v.val # <<"0">>
    [] v.type = "string"  -> v.val # <<>>
    [] v.type = "boolean" -> v.val # <<"f", "a", "l", "s", "e">>
    [] v.type = "object"  -> TRUE

\* new Cache(5 * 60 * 1000)
TTL == 5 * 60 * 1000

\* Cache constructor
EmptyCache == [data |-> NoData, timestamp |-> 0]

\* Cache.get() at time t
CacheGet(c, t) ==
  IF JsTruthy(c.data) /\ c.timestamp # 0 /\ t - c.timestamp < TTL
  THEN c.data
  ELSE NoData

\* Cache.set(data) at time t
CacheSet(c, data, t) == [data |-> data, timestamp |-> t]

\* Cache.clear()
CacheClear(c) == [data |-> NoData, timestamp |-> 0]

\* Cache.isValid() at time t
CacheIsValid(c, t) ==
  c.data.type # "null" /\ c.timestamp # 0 /\ t - c.timestamp < TTL

\* no store into the slot yet, or the slot was cleared
NoStore == [has |-> FALSE, value |-> NoData, at |-> 0, by |-> 0]

\* nothing returned yet
NoResult == [op |-> "none", ret |-> NoData, at |-> 0]

\* most multiples of the time-to-live the clock runs over
MaxTtls == 1

\* the instants the clock is read at: one millisecond before, at and after each
\* multiple of the time-to-live, counted from the start
Instants == {1 + k * TTL + e : k \in 0..MaxTtls, e \in {-1, 0, 1}} \ {0}

\* time passes
Tick ==
  /\ \E t \in Instants : t > now /\ now' = t
  /\ UNCHANGED <<arg, res, cache, got, impl, procs, fetchSeq, stored>>

(***************************************************************************)
(* Cache harness: set, get, clear and the clock, on one Cache object       *)
(***************************************************************************)

\* the values handed to set: null, numbers, strings, booleans and objects
StorableValues ==
  {NoData,
   [type |-> "number", val |-> <<"0">>],
   [type |-> "number", val |-> <<"1">>],
   [type |-> "string", val |-> <<>>],
   [type |-> "string", val |-> <<"a">>],
   [type |-> "boolean", val |-> <<"f", "a", "l", "s", "e">>],
   [type |-> "boolean", val |-> <<"t", "r", "u", "e">>],
   [type |-> "object", val |-> <<>>],
   [type |-> "object", val |-> <<"a">>]}

InitCache ==
  /\ cache = EmptyCache
  /\ now = 1
  /\ got = NoResult
  /\ stored = NoStore
  /\ arg = <<>> /\ res = <<>> /\ impl = "none" /\ procs = <<>> /\ fetchSeq = 0

DoSet ==
  \E x \in StorableValues :
    /\ cache' = CacheSet(cache, x, now)
    /\ stored' = [has |-> TRUE, value |-> x, at |-> now, by |-> 0]
    /\ got' = [op |-> "set", ret |-> NoData, at |-> now]
    /\ UNCHANGED <<arg, res, now, impl, procs, fetchSeq>>

\* a get that evicts the entry it finds expired
DoGet_Evicting ==
  /\ got' = [op |-> "get", ret |-> CacheGet(cache, now), at |-> now]
  /\ cache' = IF JsTruthy(CacheGet(cache, now)) THEN cache ELSE EmptyCache
  /\ UNCHANGED <<arg, res, now, impl, procs, fetchSeq, stored>>

DoGet ==
  /\ got' = [op |-> "get", ret |-> CacheGet(cache, now), at |-> now]
  /\ UNCHANGED <<arg, res, cache, now, impl, procs, fetchSeq, stored>>

DoClear ==
  /\ cache' = CacheClear(cache)
  /\ stored' = NoStore
  /\ got' = [op |-> "clear", ret |-> NoData, at |-> now]
  /\ UNCHANGED <<arg, res, now, impl, procs, fetchSeq>>

NextCache == DoSet \/ DoGet \/ DoClear \/ Tick

SpecCache == InitCache /\ [][NextCache]_vars

(***************************************************************************)
(* Inputs of the transformers                                              *)
(***************************************************************************)

\* number of successive applications of a transformer to one record
MaxPasses == 2

\* longest target of a book
MaxTargetLen == 2

\* longest tail appended to a URL head of a recipe
MaxTailLen == 1

\* most query-string and fragment pieces appended to a link
MaxParams == 2

\* most links in an array-valued field of an encyclopedia entry
MaxLinks == 1

\* all strings over an alphabet up to a length
StringsUpTo(alphabet, n) == UNION {[1..k -> alphabet] : k \in 0..n}

\* an optional field: <<>> when absent, <<v>> when present with value v
Opt(S) == {<<>>} \cup {<<v>> : v \in S}

\* the object whose fields are the present ones of a record of optional fields
MakeObject(opts) == [f \in {g \in DOMAIN opts : opts[g] # <<>>} |-> opts[f][1]]

Shops ==
  {<<"a", "m", "a", "z", "o", "n">>,
   <<"t", "h", "a", "l", "i", "a">>,
   <<"A", "m", "a", "z", "o", "n">>}

BookInputs ==
  {MakeObject([isbn |-> <<<<"1">>>>, shop |-> s, target |-> t, url |-> u]) :
     s \in Opt(Shops),
     t \in Opt(StringsUpTo({" ", "a"}, MaxTargetLen)),
     u \in Opt({<<"u">>})}

UrlHeads ==
  {<<>>,
   <<"/">>,
   <<"h", "t", "t">>,
   <<"h", "t", "t", "p">>,
   <<"h", "t", "t", "p", "s", ":", "/", "/", "x">>}

UrlValues == {h \o t : h \in UrlHeads, t \in StringsUpTo({"a", "/"}, MaxTailLen)}

RecipeInputs ==
  {MakeObject([thai |-> <<<<"k">>>>, url_de |-> d, url_en |-> e, imageUrl |-> i]) :
     d \in Opt(UrlValues), e \in Opt(UrlValues), i \in Opt(UrlValues)}

LinkHeads ==
  {<<"h", "t", "t", "p", "s", ":", "/", "/", "s", ".", "t", "h", "/", "p">>,
   <<"h", "t", "t", "p", ":", "/", "/", "s", ".", "t", "h", "/", "p">>,
   <<"/", "r", "e", "i", "s", "k", "o", "c", "h", "/", "r">>,
   <<"/", "a", "a", "-", "p", "d", "f", "/", "f">>,
   <<"/", "y", "o", "u", "t", "u", "b", "e", "/", "v">>,
   <<"/", "k">>,
   <<"k">>,
   <<>>}

Params ==
  {<<"t", "r", "a", "n", "s", "=", "T", "H", "-", "D", "E">>,
   <<"t", "r", "a", "n", "s", "=", "T", "H", "-", "E", "N">>,
   <<"a", "=", "1">>}

\* the query string of a sequence of parameters: '?p1&p2...', '' when there is none
RECURSIVE QueryString(_)
QueryString(ps) ==
  IF ps = <<>> THEN <<>>
  ELSE IF Len(ps) = 1 THEN <<"?">> \o ps[1]
  ELSE QueryString(SubSeq(ps, 1, Len(ps) - 1)) \o <<"&">> \o ps[Len(ps)]

\* links: a head, a query string of at most MaxParams parameters, maybe a fragment
LinkInputs ==
  {h \o QueryString(ps) \o f :
     h \in LinkHeads, ps \in StringsUpTo(Params, MaxParams), f \in {<<>>, <<"#", "z">>}}

EntryLinks ==
  {<<"/", "k">>,
   <<"h", "t", "t", "p", "s", ":", "/", "/", "s", ".", "t", "h", "/", "p", "?", "t", "r", "a", "n", "s", "=", "T", "H", "-", "D", "E">>,
   <<"/", "r", "e", "i", "s", "k", "o", "c", "h", "/", "r", "?", "t", "r", "a", "n", "s", "=", "T", "H", "-", "E", "N">>,
   <<"/", "y", "o", "u", "t", "u", "b", "e", "/", "v">>,
   <<"h", "t", "t", "p", "s", ":", "/", "/", "s", ".", "t", "h", "/", "p", "#", "z">>}

ImageValues ==
  {<<"i", ".", "j", "p", "g">>,
   <<"/", "i", ".", "j", "p", "g">>,
   <<"h", "t", "t", "p", ":", "/", "/", "x", "/", "i", ".", "j", "p", "g">>}

SingleLinks == {[isArray |-> FALSE, items |-> <<l>>] : l \in EntryLinks \cup {<<>>}}

LinkArrays == {[isArray |-> TRUE, items |-> ls] : ls \in StringsUpTo(EntryLinks, MaxLinks)}

LanguageInputs ==
  {MakeObject([summary |-> <<<<"s">>>>, recipes |-> r, url |-> u, uses |-> w]) :
     r \in Opt(LinkArrays),
     u \in Opt(SingleLinks),
     w \in Opt({[isArray |-> TRUE, items |-> <<<<"/", "k">>>>]})}

EntryInputs ==
  {MakeObject([thaiName |-> <<<<"n">>>>, imageUrl |-> i, de |-> p[1], en |-> p[2]]) :
     i \in Opt(ImageValues),
     p \in UNION {{<<d, <<>>>>, <<<<>>, d>>, <<d, d>>} : d \in Opt(LanguageInputs)}}


(***************************************************************************)
(* Transformer harness: a record is drawn, then the transformer is applied *)
(* to it and again to its own result.                                      *)
(***************************************************************************)

\* the cache and the queries take no part in the transformer harness
Parked ==
  /\ cache = EmptyCache
  /\ now = 1
  /\ got = NoResult
  /\ impl = "none"
  /\ procs = <<>>
  /\ fetchSeq = 0
  /\ stored = NoStore

\* the value the next pass is applied to
Current == IF res = <<>> THEN arg ELSE res[Len(res)]

InitBook == arg \in BookInputs /\ res = <<>> /\ Parked

ApplyBook ==
  /\ Len(res) < MaxPasses
  /\ res' = Append(res, processBookData(Current))
  /\ UNCHANGED <<arg, cache, now, got, impl, procs, fetchSeq, stored>>

SpecBook == InitBook /\ [][ApplyBook]_vars

InitRecipe == arg \in RecipeInputs /\ res = <<>> /\ Parked

ApplyRecipe ==
  /\ Len(res) < MaxPasses
  /\ res' = Append(res, processRecipeUrls(Current))
  /\ UNCHANGED <<arg, cache, now, got, impl, procs, fetchSeq, stored>>

SpecRecipe == InitRecipe /\ [][ApplyRecipe]_vars

InitLink == arg \in LinkInputs /\ res = <<>> /\ Parked

ApplyLink ==
  /\ Len(res) < MaxPasses
  /\ res' = Append(res, transformRecipeLink(Current))
  /\ UNCHANGED <<arg, cache, now, got, impl, procs, fetchSeq, stored>>

SpecLink == InitLink /\ [][ApplyLink]_vars

InitEntry == arg \in EntryInputs /\ res = <<>> /\ Parked

ApplyEntry ==
  /\ Len(res) < MaxPasses
  /\ res' = Append(res, processEntry(Current))
  /\ UNCHANGED <<arg, cache, now, got, impl, procs, fetchSeq, stored>>

SpecEntry == InitEntry /\ [][ApplyEntry]_vars

\* one transform call on a raw record: arg is [d, r], the domain and the
\* record handed to the transform; res becomes the one-element sequence of
\* [out, raw]: what the call returned and the raw record as it is after the
\* call
RawRecords ==
  [d : {"books"}, r : BookInputs]
    \cup [d : {"library"}, r : RecipeInputs]
    \cup [d : {"encyclopedia"}, r : EntryInputs]

\* the transform of a domain applied to one record
TransformRecord(d, r) ==
  CASE d = "books"        -> processBookData(r)
    [] d = "library"      -> processRecipeUrls(r)
    [] d = "encyclopedia" -> processEntry(r)

\* the record handed to the transform, after the call.  processBookData and
\* processRecipeUrls assign to fields of the copy { ...record } only.
\* processEntry copies the entry the same way, so processed.de and
\* processed.en are the sub-objects of the entry itself, and the assignments
\* processed.de[field] = ... write into them
RawAfter(d, r) ==
  IF d = "encyclopedia"
  THEN [f \in DOMAIN r |-> IF f \in {"de", "en"} THEN processEntry(r)[f] ELSE r[f]]
  ELSE r

InitPure == arg \in RawRecords /\ res = <<>> /\ Parked

ApplyPure ==
  /\ res = <<>>
  /\ res' = <<[out |-> TransformRecord(arg.d, arg.r), raw |-> RawAfter(arg.d, arg.r)]>>
  /\ UNCHANGED <<arg, cache, now, got, impl, procs, fetchSeq, stored>>

SpecPure == InitPure /\ [][ApplyPure]_vars

(***************************************************************************)
(* The fetchers                                                            *)
(*                                                                         *)
(* impl names the fetchDataset implementation a process runs: the shared   *)
(* library modules (lib_x) and the stand-alone servers (srv_x).  A dataset *)
(* is a sequence: of books, of encyclopedia entries, of cookbooks          *)
(* [name, recipes] with recipes a sequence of [key, recipe], or of         *)
(* dictionary categories [name, terms] with terms a sequence of            *)
(* [thai, details], in the order of the JSON document.                     *)
(***************************************************************************)

Impls ==
  {"lib_books", "lib_dictionary", "lib_library", "lib_encyclopedia",
   "srv_books", "srv_dictionary", "srv_library", "srv_encyclopedia"}

\* the domain an implementation serves
Domain(i) ==
  CASE i \in {"lib_books", "srv_books"}               -> "books"
    [] i \in {"lib_dictionary", "srv_dictionary"}     -> "dictionary"
    [] i \in {"lib_library", "srv_library"}           -> "library"
    [] i \in {"lib_encyclopedia", "srv_encyclopedia"} -> "encyclopedia"

\* the documents the remote source of a domain may answer with
RawDocs(d) ==
  CASE d = "books" ->
         << << [isbn |-> <<"1">>, shop |-> S_amazon, target |-> <<"a">>] >>,
            << [isbn |-> <<"1">>, shop |-> S_amazon, target |-> <<" ">>],
               [isbn |-> <<"2">>, shop |-> S_amazon, target |-> <<"b">>] >> >>
    [] d = "dictionary" ->
         << << [name |-> <<"g">>,
                terms |-> << [thai |-> <<"m">>, details |-> [meaning_de |-> <<"a">>]] >>] >>,
            << [name |-> <<"o">>,
                terms |-> << [thai |-> <<"s">>, details |-> [meaning_de |-> <<"b">>]] >>] >> >>
    [] d = "library" ->
         << << [name |-> <<"c">>,
                recipes |-> << [key |-> <<"k">>,
                                recipe |-> [thai |-> <<"k">>, url_de |-> <<"/", "a">>,
                                            imageUrl |-> <<"/", "a">>]] >>] >>,
            << [name |-> <<"d">>,
                recipes |-> << [key |-> <<"j">>,
                                recipe |-> [thai |-> <<"j">>, url_en |-> <<"b">>]] >>] >> >>
    [] d = "encyclopedia" ->
         << << [thaiName |-> <<"n">>,
                de |-> [recipes |-> [isArray |-> TRUE,
                                     items |-> << S_reiskoch \o <<"r", "?">> \o S_transTH \o S_EN >>]]] >>,
            << [thaiName |-> <<"m">>, imageUrl |-> <<"i">>,
                en |-> [url |-> [isArray |-> FALSE, items |-> << <<"/", "k">> >>]]] >> >>

\* processRecipesUrls(recipes): every recipe of a cookbook
processRecipesUrls(recipes) ==
  [j \in 1..Len(recipes) |->
     [key |-> recipes[j].key, recipe |-> processRecipeUrls(recipes[j].recipe)]]

\* the transform of a domain, applied to a raw document
Transform(d, raw) ==
  CASE d = "books"        -> [j \in 1..Len(raw) |-> processBookData(raw[j])]
    [] d = "dictionary"   -> raw
    [] d = "library"      -> [j \in 1..Len(raw) |->
                                [name |-> raw[j].name,
                                 recipes |-> processRecipesUrls(raw[j].recipes)]]
    [] d = "encyclopedia" -> [j \in 1..Len(raw) |-> processEntry(raw[j])]

\* no response
NoResponse == [net |-> "none", ok |-> FALSE, json |-> FALSE, body |-> 0]

\* what a fetch of a domain may end with: a transport error, a response with
\* a status that is not ok, or an ok response with a content type (JSON or
\* not) and a body that is document number body of the domain, or that does
\* not parse when body = 0
Responses(d) ==
  {[net |-> "error", ok |-> FALSE, json |-> FALSE, body |-> 0],
   [net |-> "ok", ok |-> FALSE, json |-> TRUE, body |-> 0]}
    \cup [net : {"ok"}, ok : {TRUE}, json : BOOLEAN, body : 0..Len(RawDocs(d))]

\* the fetch of implementation i yields a document: response.ok, for
\* library-server.js a JSON content type, and a body that parses
Succeeds(i, r) ==
  /\ r.net = "ok"
  /\ r.ok
  /\ i = "srv_library" => r.json
  /\ r.body # 0

\* the cache check of a fetchDataset call at time t: the cached value, or NoData
CacheLookup(i, c, t) ==
  CASE i \in {"lib_books", "lib_dictionary", "lib_library", "lib_encyclopedia"} ->
         CacheGet(c, t)
    [] i = "srv_books" ->
         IF JsTruthy(c.data) /\ c.timestamp # 0 /\ t - c.timestamp < TTL
         THEN c.data ELSE NoData
    [] i = "srv_library" ->
         IF JsTruthy(c.data) /\ t - c.timestamp < TTL THEN c.data ELSE NoData
    [] i \in {"srv_dictionary", "srv_encyclopedia"} ->
         IF JsTruthy(c.data) THEN c.data ELSE NoData

\* a store that keeps what the cache holds: the first fetch to complete wins
CacheStore_FirstWins(i, c, data, t, t0) ==
  IF JsTruthy(c.data) THEN c ELSE [data |-> data, timestamp |-> t]

\* the cache after a successful fetch: the dataset, and the time of the store
\* (library-server.js: the time t0 the call started; the dictionary and
\* encyclopedia servers keep no time)
CacheStore(i, c, data, t, t0) ==
  CASE i \in {"lib_books", "lib_dictionary", "lib_library", "lib_encyclopedia"} ->
         CacheSet(c, data, t)
    [] i = "srv_books"   -> [data |-> data, timestamp |-> t]
    [] i = "srv_library" -> [data |-> data, timestamp |-> t0]
    [] i \in {"srv_dictionary", "srv_encyclopedia"} ->
         [data |-> data, timestamp |-> c.timestamp]

\* a cache hit that runs the transform over the cached dataset again
HitResult_Retransform(i, cached) == Transform(Domain(i), cached.val)

\* what a fetchDataset call returns on a cache hit
HitResult(i, cached) == cached.val

\* every implementation answering a failed fetch from its cache
FailureResult_AnyImpl(i, c) == IF JsTruthy(c.data) THEN c.data ELSE NoData

\* what a fetchDataset call returns when its fetch failed: book-info-server.js
\* returns the cached books, 'even if expired'; NoData stands for the error
FailureResult(i, c) ==
  IF i = "srv_books" /\ JsTruthy(c.data) THEN c.data ELSE NoData

\* the fetchDataset calls of a query whose first call returned dataset first
\* (getAllRegions and getRelationshipTypes of the library module make none)
CallsOf(op, first) ==
  CASE op = "getCategory"   -> 2
    [] op = "translateWord" -> 2
    [] op = "searchAll"     -> 1 + Len(first)
    [] op \in {"getAllRegions", "getRelationshipTypes"} -> 0
    [] OTHER                -> 1

\* the queries of an implementation
Ops(i) ==
  CASE i = "lib_dictionary" -> {"getCategories", "getCategory", "translateWord", "searchAll"}
    [] i \in {"lib_books", "srv_books"} -> {"listBooks"}
    [] i \in {"lib_library", "srv_library"} -> {"listCookbooks"}
    [] i \in {"lib_encyclopedia", "srv_encyclopedia"} -> {"getAllEntries"}
    [] i = "srv_dictionary" -> {"getCategories"}

\* the table getAllRegions returns; a string of the tables is the sequence of
\* its Unicode code points
regions ==
  [central |-> [key_de |-> <<122, 101, 110, 116, 114, 97, 108, 116, 104, 97, 105, 108, 97, 110, 100>>,
                key_en |-> <<99, 101, 110, 116, 114, 97, 108, 45, 116, 104, 97, 105, 108, 97, 110, 100>>,
                thai |-> <<3616, 3634, 3588, 3585, 3621, 3634, 3591>>,
                trans_de |-> <<80, 104, 97, 107, 32, 75, 108, 97, 110, 103>>,
                trans_en |-> <<80, 104, 97, 107, 32, 75, 108, 97, 110, 103>>,
                title_de |-> <<90, 101, 110, 116, 114, 97, 108, 116, 104, 97, 105, 108, 97, 110, 100>>,
                title_en |-> <<67, 101, 110, 116, 114, 97, 108, 32, 84, 104, 97, 105, 108, 97, 110, 100>>],
   north |-> [key_de |-> <<110, 111, 114, 100, 116, 104, 97, 105, 108, 97, 110, 100>>,
              key_en |-> <<110, 111, 114, 116, 104, 101, 114, 110, 45, 116, 104, 97, 105, 108, 97, 110, 100>>,
              thai |-> <<3616, 3634, 3588, 3648, 3627, 3609, 3639, 3629>>,
              trans_de |-> <<80, 104, 97, 107, 32, 78, 117, 101, 97>>,
              trans_en |-> <<80, 104, 97, 107, 32, 78, 117, 101, 97>>,
              title_de |-> <<78, 111, 114, 100, 116, 104, 97, 105, 108, 97, 110, 100>>,
              title_en |-> <<78, 111, 114, 116, 104, 101, 114, 110, 32, 84, 104, 97, 105, 108, 97, 110, 100>>],
   isaan |-> [key_de |-> <<110, 111, 114, 100, 111, 115, 116, 116, 104, 97, 105, 108, 97, 110, 100>>,
              key_en |-> <<110, 111, 114, 116, 104, 101, 97, 115, 116, 101, 114, 110, 45, 116, 104, 97, 105, 108, 97, 110, 100>>,
              thai |-> <<3616, 3634, 3588, 3629, 3637, 3626, 3634, 3609>>,
              trans_de |-> <<80, 104, 97, 107, 32, 73, 115, 97, 110>>,
              trans_en |-> <<80, 104, 97, 107, 32, 73, 115, 97, 110>>,
              title_de |-> <<78, 111, 114, 100, 111, 115, 116, 116, 104, 97, 105, 108, 97, 110, 100, 32, 40, 73, 115, 97, 97, 110, 41>>,
              title_en |-> <<78, 111, 114, 116, 104, 101, 97, 115, 116, 101, 114, 110, 32, 84, 104, 97, 105, 108, 97, 110, 100, 32, 40, 73, 115, 97, 97, 110, 41>>],
   south |-> [key_de |-> <<115, 117, 101, 100, 116, 104, 97, 105, 108, 97, 110, 100>>,
              key_en |-> <<115, 111, 117, 116, 104, 101, 114, 110, 45, 116, 104, 97, 105, 108, 97, 110, 100>>,
              thai |-> <<3611, 3633, 3585, 3625, 3660, 3651, 3605, 3657>>,
              trans_de |-> <<80, 97, 107, 32, 84, 97, 105>>,
              trans_en |-> <<80, 97, 107, 32, 84, 97, 105>>,
              title_de |-> <<83, 252, 100, 116, 104, 97, 105, 108, 97, 110, 100>>,
              title_en |-> <<83, 111, 117, 116, 104, 101, 114, 110, 32, 84, 104, 97, 105, 108, 97, 110, 100>>]]

\* the table getRelationshipTypes returns
relationships ==
  [uses |-> [title_de |-> <<86, 101, 114, 119, 101, 110, 100, 101, 116>>,
             title_en |-> <<85, 115, 101, 115>>],
   usedBy |-> [title_de |-> <<86, 101, 114, 119, 101, 110, 100, 117, 110, 103>>,
               title_en |-> <<85, 115, 97, 103, 101, 115>>],
   fits |-> [title_de |-> <<80, 97, 115, 115, 116, 32, 103, 117, 116, 32, 122, 117>>,
             title_en |-> <<70, 105, 116, 115>>],
   fittedBy |-> [title_de |-> <<68, 97, 122, 117, 32, 112, 97, 115, 115, 116, 32, 103, 117, 116>>,
                 title_en |-> <<66, 101, 115, 116, 32, 97, 99, 99, 111, 109, 112, 97, 110, 105, 101, 100, 32, 98, 121>>],
   variations |-> [title_de |-> <<86, 97, 114, 105, 97, 116, 105, 111, 110, 101, 110>>,
                   title_en |-> <<86, 97, 114, 105, 97, 116, 105, 111, 110, 115>>],
   variationOf |-> [title_de |-> <<69, 105, 110, 101, 32, 86, 97, 114, 105, 97, 116, 105, 111, 110, 32, 118, 111, 110>>,
                    title_en |-> <<65, 32, 86, 97, 114, 105, 97, 116, 105, 111, 110, 32, 111, 102>>]]

\* the queries of an implementation that answer with a fixed table: the
\* exports of the library module, the tools of encyclopedia-server.js
TableOps(i) ==
  CASE i = "lib_encyclopedia" -> {"getAllRegions", "getRelationshipTypes"}
    [] i = "srv_encyclopedia" -> {"list_regions", "list_relationships"}
    [] OTHER -> {}

\* the table a table query answers with
TableAnswer(op) ==
  IF op \in {"getAllRegions", "list_regions"} THEN regions ELSE relationships

\* number of callers; each issues one query
NumCallers == 2

Callers == 1..NumCallers

\* a caller that has not issued its query.  Beside the state of the call
\* (pc, op, the datasets its fetchDataset calls returned, the time t0
\* library-server.js reads at the start of a call) a process records what
\* happened to it: the fetches it issued, the number of its last fetch, the
\* response to it, whether the cache check hit when the query was invoked,
\* whether a cache hit served it a dataset stored TTL or more ago, and
\* whether a failed fetch was answered from the cache, and whether its tool
\* call lacks a required parameter
IdleProc ==
  [pc |-> "idle", op |-> "none", snaps |-> <<>>, t0 |-> 0,
   fetches |-> 0, fid |-> 0, resp |-> NoResponse,
   startedValid |-> FALSE, lateHit |-> FALSE, stale |-> FALSE, lacks |-> FALSE]

\* the servers whose tool-call handler takes the required parameters
ToolServers == {"srv_library", "srv_encyclopedia", "srv_books"}

\* a tool of the server that has a required parameter
ToolOps(i) ==
  CASE i = "srv_library"      -> {"get_cookbook_recipes", "get_recipes_by_region"}
    [] i = "srv_encyclopedia" -> {"search_encyclopedia", "get_entries_by_tag"}
    [] i = "srv_books"        -> {"get_book_by_isbn", "get_books_by_author"}

\* the handler tests the required parameter before it calls the query:
\* library-server.js does; encyclopedia-server.js fetches the dataset first,
\* book-info-server.js has no test
ValidatesFirst(i) == i = "srv_library"

\* how a tool call that lacks its parameter ends once the dataset is there:
\* encyclopedia-server.js rejects it then, in book-info-server.js the query
\* runs on undefined and fails
LateOutcome(i) == IF i = "srv_encyclopedia" THEN "rejected" ELSE "failed"

\* a fetchDataset call of process pr returned dataset ds
Returned(pr, ds) ==
  LET k == Len(pr.snaps) + 1
      total == CallsOf(pr.op, IF k = 1 THEN ds ELSE pr.snaps[1])
  IN  [pr EXCEPT !.snaps = Append(@, ds),
                 !.pc = IF pr.lacks THEN LateOutcome(impl)
                        ELSE IF k >= total THEN "done" ELSE "between"]

\* a query that takes the first record out of the dataset it reads
QueryWrites_Consuming(op, ds) == IF ds = <<>> THEN ds ELSE Tail(ds)

\* the dataset after query op has run over it: the queries read the records
\* and assign only to objects of their own (the results array, stats,
\* bookData, the spread copies of searchBooks and getRecipeByKey)
QueryWrites(op, ds) == ds

\* the cache after the query of process pr went on with the dataset ds that
\* its fetchDataset call returned: ds is the cached array itself, not a copy
AfterQuery(c, pr, ds) ==
  IF pr.pc \in {"done", "between"} /\ c.data = [type |-> "object", val |-> ds]
  THEN [c EXCEPT !.data = [type |-> "object", val |-> QueryWrites(pr.op, ds)]]
  ELSE c

\* a fetchDataset call of process pr, up to its first await: the cache check,
\* then either the cached dataset or the fetch
Call(p, pr) ==
  LET hit == CacheLookup(impl, cache, now)
  IN  IF JsTruthy(hit)
      THEN LET after == Returned([pr EXCEPT !.lateHit = @ \/ now - stored.at >= TTL],
                                 HitResult(impl, hit))
           IN  /\ procs' = [procs EXCEPT ![p] = after]
               /\ cache' = AfterQuery(cache, after, HitResult(impl, hit))
               /\ UNCHANGED fetchSeq
      ELSE /\ fetchSeq' = fetchSeq + 1
           /\ cache' = cache
           /\ procs' = [procs EXCEPT ![p] =
                          [pr EXCEPT !.pc = "fetching", !.fetches = @ + 1,
                                     !.fid = fetchSeq + 1, !.resp = NoResponse,
                                     !.t0 = IF impl = "srv_library" THEN now ELSE 0]]

\* the queries that make more than one fetchDataset call (dictionary-logic.js)
Compound == {"getCategory", "translateWord", "searchAll"}

\* a caller invokes one of the queries ops: its first fetchDataset call runs at
\* once (callers are numbered in the order of their invocations)
StartQuery(p, ops) ==
  /\ procs[p].pc = "idle"
  /\ \A q \in 1..(p - 1) : procs[q].pc # "idle"
  /\ \E op \in ops :
       LET pr == [procs[p] EXCEPT !.op = op,
                                  !.startedValid = JsTruthy(CacheLookup(impl, cache, now))]
       IN  IF CallsOf(op, <<>>) = 0
           THEN /\ procs' = [procs EXCEPT ![p] = [pr EXCEPT !.pc = "done"]]
                /\ UNCHANGED <<fetchSeq, cache>>
           ELSE Call(p, pr)
  /\ UNCHANGED <<arg, res, now, got, impl, stored>>

\* a caller sends a tool call, with its required parameter or without
StartToolCall(p) ==
  /\ procs[p].pc = "idle"
  /\ \A q \in 1..(p - 1) : procs[q].pc # "idle"
  /\ \E op \in ToolOps(impl), lacks \in BOOLEAN :
       LET pr == [procs[p] EXCEPT !.op = op, !.lacks = lacks,
                                  !.startedValid = JsTruthy(CacheLookup(impl, cache, now))]
       IN  IF lacks /\ ValidatesFirst(impl)
           THEN /\ procs' = [procs EXCEPT ![p] = [pr EXCEPT !.pc = "rejected"]]
                /\ UNCHANGED <<fetchSeq, cache>>
           ELSE Call(p, pr)
  /\ UNCHANGED <<arg, res, now, got, impl, stored>>

\* a query resumes after an await and makes its next fetchDataset call
NextCall(p) ==
  /\ procs[p].pc = "between"
  /\ Call(p, procs[p])
  /\ UNCHANGED <<arg, res, now, got, impl, stored>>

\* a fetch whose failure empties the cache
Respond_ClearOnFailure(p) ==
  /\ procs[p].pc = "fetching"
  /\ \E r \in Responses(Domain(impl)) :
       LET pr == [procs[p] EXCEPT !.resp = r, !.t0 = 0]
       IN  IF Succeeds(impl, r)
           THEN LET data == Transform(Domain(impl), RawDocs(Domain(impl))[r.body])
                IN  /\ cache' = AfterQuery(CacheStore(impl, cache,
                                                      [type |-> "object", val |-> data],
                                                      now, procs[p].t0),
                                           Returned(pr, data), data)
                    /\ stored' = [has |-> TRUE, value |-> [type |-> "object", val |-> data],
                                  at |-> now, by |-> pr.fid]
                    /\ procs' = [procs EXCEPT ![p] = Returned(pr, data)]
           ELSE /\ procs' = [procs EXCEPT ![p] =
                               IF JsTruthy(FailureResult(impl, cache))
                               THEN Returned([pr EXCEPT !.stale = TRUE],
                                             FailureResult(impl, cache).val)
                               ELSE [pr EXCEPT !.pc = "failed"]]
                /\ cache' = EmptyCache
                /\ UNCHANGED stored
  /\ UNCHANGED <<arg, res, now, got, impl, fetchSeq>>

\* the fetch of a call ends: on success the document is transformed, stored and
\* returned; on failure the call throws, or returns what FailureResult says
Respond(p) ==
  /\ procs[p].pc = "fetching"
  /\ \E r \in Responses(Domain(impl)) :
       LET pr == [procs[p] EXCEPT !.resp = r, !.t0 = 0]
       IN  IF Succeeds(impl, r)
           THEN LET data == Transform(Domain(impl), RawDocs(Domain(impl))[r.body])
                IN  /\ cache' = AfterQuery(CacheStore(impl, cache,
                                                      [type |-> "object", val |-> data],
                                                      now, procs[p].t0),
                                           Returned(pr, data), data)
                    /\ stored' = [has |-> TRUE, value |-> [type |-> "object", val |-> data],
                                  at |-> now, by |-> pr.fid]
                    /\ procs' = [procs EXCEPT ![p] = Returned(pr, data)]
           ELSE /\ IF JsTruthy(FailureResult(impl, cache))
                   THEN LET after == Returned([pr EXCEPT !.stale = TRUE],
                                              FailureResult(impl, cache).val)
                        IN  /\ procs' = [procs EXCEPT ![p] = after]
                            /\ cache' = AfterQuery(cache, after,
                                                   FailureResult(impl, cache).val)
                   ELSE /\ procs' = [procs EXCEPT ![p] = [pr EXCEPT !.pc = "failed"]]
                        /\ cache' = cache
                /\ UNCHANGED stored
  /\ UNCHANGED <<arg, res, now, got, impl, fetchSeq>>

Init ==
  /\ impl \in Impls
  /\ cache = EmptyCache
  /\ now = 1
  /\ procs = [p \in Callers |-> IdleProc]
  /\ fetchSeq = 0
  /\ stored = NoStore
  /\ got = NoResult
  /\ arg = <<>> /\ res = <<>>

\* every implementation, under the queries that make one fetchDataset call
Next ==
  \/ \E p \in Callers : StartQuery(p, Ops(impl) \ Compound)
  \/ \E p \in Callers : Respond(p)
  \/ Tick

Spec == Init /\ [][Next]_vars

\* dictionary-logic.js under all its queries
InitDictionary == Init /\ impl = "lib_dictionary"

NextDictionary ==
  \/ \E p \in Callers : StartQuery(p, Ops(impl))
  \/ \E p \in Callers : NextCall(p)
  \/ \E p \in Callers : Respond(p)
  \/ Tick

SpecDictionary == InitDictionary /\ [][NextDictionary]_vars

\* the servers under the tool calls that have a required parameter
InitTools == Init /\ impl \in ToolServers

NextTools ==
  \/ \E p \in Callers : StartToolCall(p)
  \/ \E p \in Callers : Respond(p)
  \/ Tick

SpecTools == InitTools /\ [][NextTools]_vars

\* the encyclopedia module and server under all their queries
InitEncyclopedia == Init /\ impl \in {"lib_encyclopedia", "srv_encyclopedia"}

NextEncyclopedia ==
  \/ \E p \in Callers : StartQuery(p, Ops(impl) \cup TableOps(impl))
  \/ \E p \in Callers : Respond(p)
  \/ Tick

SpecEncyclopedia == InitEncyclopedia /\ [][NextEncyclopedia]_vars

(***************************************************************************)
(* Queries of the encyclopedia (part_001), on the dataset fetchEncyclopedia *)
(* returned.  An entry has thaiName and maybe alternativeNames, de and en;  *)
(* a sub-object has maybe transcription, summary, description (strings),    *)
(* tags and regions (arrays of strings).                                    *)
(***************************************************************************)

\* obj[f] && obj[f].toLowerCase().includes(term), for a string field
StringFieldHas(obj, f, term) ==
  Truthy(obj, f) /\ Includes(ToLowerCase(obj[f]), term)

\* obj[f] && obj[f].some((x) => x.toLowerCase().includes(term)), for an array field
ArrayFieldHas(obj, f, term) ==
  f \in DOMAIN obj /\ \E j \in 1..Len(obj[f]) : Includes(ToLowerCase(obj[f][j]), term)

\* the matches array of searchEntries has a true element
EntryMatches(entry, lowerSearchTerm) ==
  \/ StringFieldHas(entry, "thaiName", lowerSearchTerm)
  \/ ArrayFieldHas(entry, "alternativeNames", lowerSearchTerm)
  \/ \E l \in {"de", "en"} \cap DOMAIN entry :
       \/ \E f \in {"transcription", "summary", "description"} :
            StringFieldHas(entry[l], f, lowerSearchTerm)
       \/ \E f \in {"tags", "regions"} : ArrayFieldHas(entry[l], f, lowerSearchTerm)

\* the loop of searchEntries from entry i on, with the results so far
RECURSIVE searchLoop(_, _, _, _, _)
searchLoop(data, lowerSearchTerm, limit, i, results) ==
  IF i > Len(data) THEN results
  ELSE IF EntryMatches(data[i], lowerSearchTerm)
  THEN LET pushed == Append(results, data[i])
       IN  IF Len(pushed) >= limit THEN pushed
           ELSE searchLoop(data, lowerSearchTerm, limit, i + 1, pushed)
  ELSE searchLoop(data, lowerSearchTerm, limit, i + 1, results)

\* searchEntries(searchTerm, limit)
searchEntries(data, searchTerm, limit) ==
  searchLoop(data, ToLowerCase(searchTerm), limit, 1, <<>>)

\* the filter of getEntriesByRegion (f = "regions") and getEntriesByTag (f = "tags")
EntryHasIn(entry, f, term) ==
  \E l \in {"de", "en"} \cap DOMAIN entry : ArrayFieldHas(entry[l], f, ToLowerCase(term))

\* getEntriesByRegion(region, limit)
getEntriesByRegion(data, region, limit) ==
  Slice(Filter(data, {i \in 1..Len(data) : EntryHasIn(data[i], "regions", region)}, 1), limit)

\* getEntriesByTag(tag, limit)
getEntriesByTag(data, tag, limit) ==
  Slice(Filter(data, {i \in 1..Len(data) : EntryHasIn(data[i], "tags", tag)}, 1), limit)

\* getAllEntries(limit)
getAllEntries(data, limit) == Slice(data, limit)

(***************************************************************************)
(* Queries of the dictionary (dictionary-logic.js), on the dataset          *)
(* fetchDictionary returned: the categories in the order of the JSON        *)
(* document, each [name, terms], terms the sequence of [thai, details] in   *)
(* that order.  A character of Thai script is written by its code point,    *)
(* "U+0E01"; toLowerCase leaves it as it is.                                *)
(***************************************************************************)

\* the value a query returns
Returns(v) == [ok |-> TRUE, val |-> v]

\* the error a query throws
Throws(e) == [ok |-> FALSE, val |-> e]

\* names every object inherits from Object.prototype
ObjectPrototypeKeys ==
  {<<"c", "o", "n", "s", "t", "r", "u", "c", "t", "o", "r">>,
   <<"t", "o", "S", "t", "r", "i", "n", "g">>}

\* Object.keys(obj) of a sequence of [name/thai, ...] pairs keyed by field k
OwnIndex(pairs, k, key) ==
  IF \E j \in 1..Len(pairs) : pairs[j][k] = key
  THEN CHOOSE j \in 1..Len(pairs) : pairs[j][k] = key
  ELSE 0

\* obj[key] is truthy: an own property, or one inherited from Object.prototype
LookupTruthy(pairs, k, key) ==
  OwnIndex(pairs, k, key) # 0 \/ key \in ObjectPrototypeKeys

\* { category, thai, ...details }
Hit(category, thai, details) ==
  [f \in {"category", "thai"} \cup DOMAIN details |->
     IF f \in DOMAIN details THEN details[f]
     ELSE IF f = "category" THEN category ELSE thai]

\* ...data[category][thaiWord]: the own enumerable fields of the value found
FoundDetails(terms, thaiWord) ==
  IF OwnIndex(terms, "thai", thaiWord) # 0
  THEN terms[OwnIndex(terms, "thai", thaiWord)].details
  ELSE [f \in {} |-> <<>>]

\* translateWord(thaiWord): the loop over the categories from category i on
RECURSIVE translateLoop(_, _, _)
translateLoop(data, thaiWord, i) ==
  IF i > Len(data) THEN NoData
  ELSE IF LookupTruthy(data[i].terms, "thai", thaiWord)
  THEN Hit(data[i].name, thaiWord, FoundDetails(data[i].terms, thaiWord))
  ELSE translateLoop(data, thaiWord, i + 1)

\* translateWord(thaiWord)
translateWord(data, thaiWord) == translateLoop(data, thaiWord, 1)

\* a match that looks at the four fields of the record only, not at the key
TermMatches_FieldsOnly(thai, details, lowerSearchTerm) ==
  \E f \in {"meaning_de", "meaning_en", "trans_de", "trans_en"} :
    Includes(ToLowerCase(details[f]), lowerSearchTerm)

\* the matches array of searchInCategory has a true element
TermMatches(thai, details, lowerSearchTerm) ==
  \/ Includes(thai, lowerSearchTerm)
  \/ \E f \in {"meaning_de", "meaning_en", "trans_de", "trans_en"} :
       Includes(ToLowerCase(details[f]), lowerSearchTerm)

\* searchInCategory(category, searchTerm); a category that is not an own key
\* of the dataset has no entries
searchInCategory(data, category, searchTerm) ==
  LET c == OwnIndex(data, "name", category)
  IN  IF c = 0 THEN <<>>
      ELSE LET terms == data[c].terms
               keep == {j \in 1..Len(terms) :
                          TermMatches(terms[j].thai, terms[j].details, ToLowerCase(searchTerm))}
           IN  Filter([j \in 1..Len(terms) |-> Hit(category, terms[j].thai, terms[j].details)],
                      keep, 1)

\* searchAll(searchTerm): the loop over the categories from category i on
RECURSIVE searchAllLoop(_, _, _)
searchAllLoop(data, searchTerm, i) ==
  IF i > Len(data) THEN <<>>
  ELSE searchInCategory(data, data[i].name, searchTerm)
         \o searchAllLoop(data, searchTerm, i + 1)

\* searchAll(searchTerm)
searchAll(data, searchTerm) == searchAllLoop(data, searchTerm, 1)

\* searchDictionary(query, category): category is '' when none is given
searchDictionary(data, query, category) ==
  IF category # <<>> THEN searchInCategory(data, category, query)
  ELSE searchAll(data, query)

\* getCategory(categoryName)
getCategory(data, categoryName) ==
  LET c == OwnIndex(data, "name", categoryName)
  IN  IF c = 0 THEN Throws("not found")
      ELSE Returns([j \in 1..Len(data[c].terms) |->
                      [f \in {"thai"} \cup DOMAIN data[c].terms[j].details |->
                         IF f \in DOMAIN data[c].terms[j].details
                         THEN data[c].terms[j].details[f]
                         ELSE data[c].terms[j].thai]])

(***************************************************************************)
(* Queries of the books (book-info-logic.js), on the dataset fetchBooks    *)
(* returned: the books in the order of the JSON document.  A book has      *)
(* maybe title, author, description, text, lang, publisher, isbn (strings) *)
(* and level, year (numbers).                                              *)
(***************************************************************************)

\* the decimal digits
Digits == <<"0", "1", "2", "3", "4", "5", "6", "7", "8", "9">>

\* Number.prototype.toString of a natural number
RECURSIVE NumberToString(_)
NumberToString(n) ==
  IF n < 10 THEN <<Digits[n + 1]>>
  ELSE NumberToString(n \div 10) \o <<Digits[(n % 10) + 1]>>

\* books.find(b => b.isbn === isbn): the index of the first one, 0 when none
FindIsbn(books, isbn) ==
  IF \E j \in 1..Len(books) : "isbn" \in DOMAIN books[j] /\ books[j].isbn = isbn
  THEN CHOOSE j \in 1..Len(books) :
         /\ "isbn" \in DOMAIN books[j] /\ books[j].isbn = isbn
         /\ \A k \in 1..(j - 1) : ~("isbn" \in DOMAIN books[k] /\ books[k].isbn = isbn)
  ELSE 0

\* getBookByIsbn(isbn)
getBookByIsbn(books, isbn) ==
  IF FindIsbn(books, isbn) = 0 THEN Throws("not found")
  ELSE Returns(books[FindIsbn(books, isbn)])

\* book[f] is a string that contains the lower-cased text
FieldIncludes(book, f, lower) ==
  Truthy(book, f) /\ Includes(ToLowerCase(book[f]), lower)

\* book[f]?.toString() === value, for a number field f
NumberIs(book, f, value) ==
  f \in DOMAIN book /\ NumberToString(book[f]) = value

\* the callback of the filter for criterion f keeps the book
Keeps(book, filters, f) ==
  CASE f = "query" ->
         \E g \in {"title", "author", "description", "text"} :
           FieldIncludes(book, g, ToLowerCase(filters[f]))
    [] f = "language" -> "lang" \in DOMAIN book /\ book.lang = filters[f]
    [] f \in {"level", "year"} -> NumberIs(book, f, filters[f])
    [] f \in {"author", "publisher"} -> FieldIncludes(book, f, ToLowerCase(filters[f]))

\* the books of filteredBooks the criterion f of filters keeps; a criterion
\* that is not given, or is the empty string, keeps them all
FilterBy(filteredBooks, filters, f) ==
  IF ~Truthy(filters, f) THEN filteredBooks
  ELSE LET Test(book) == Keeps(book, filters, f)
       IN  SelectSeq(filteredBooks, Test)

\* the fields of a book that searchBooks returns
BookView(book) ==
  [f \in ((DOMAIN book \cap {"title", "author", "year", "isbn", "level", "publisher",
                              "location", "image"})
            \cup {"description"}
            \cup (IF "lang" \in DOMAIN book THEN {"language"} ELSE {})
            \cup (IF Truthy(book, "url") THEN {"url"} ELSE {})) |->
     IF f = "language" THEN book.lang
     ELSE IF f = "description"
     THEN (IF Truthy(book, "description") THEN book.description
           ELSE <<"N", "o", " ", "d", "e", "s", "c", "r", "i", "p", "t", "i", "o", "n", " ",
                  "a", "v", "a", "i", "l", "a", "b", "l", "e">>)
     ELSE book[f]]

\* a search in which every filter starts from all books again, so that only
\* the last criterion given decides
searchBooks_LastOnly(books, filters) ==
  LET Last(f, rest) == IF Truthy(filters, f) THEN FilterBy(books, filters, f) ELSE rest
      b == Last("publisher", Last("year", Last("author", Last("level",
             Last("language", Last("query", books))))))
  IN  [j \in 1..Len(b) |-> BookView(b[j])]

\* searchBooks(filters): one filter after the other
searchBooks(books, filters) ==
  LET q == FilterBy(books, filters, "query")
      l == FilterBy(q, filters, "language")
      v == FilterBy(l, filters, "level")
      a == FilterBy(v, filters, "author")
      y == FilterBy(a, filters, "year")
      b == FilterBy(y, filters, "publisher")
  IN  [j \in 1..Len(b) |-> BookView(b[j])]

\* the property key is an array index: a decimal numeral with no leading zero
IsArrayIndex(key) ==
  /\ key # <<>>
  /\ \A i \in 1..Len(key) : \E d \in 1..10 : Digits[d] = key[i]
  /\ Len(key) > 1 => key[1] # "0"

\* the number an array index denotes
RECURSIVE IndexValue(_)
IndexValue(key) ==
  IF key = <<>> THEN 0
  ELSE 10 * IndexValue(SubSeq(key, 1, Len(key) - 1))
         + ((CHOOSE d \in 1..10 : Digits[d] = key[Len(key)]) - 1)

\* obj[key] = value, obj the sequence of [key, count] in the order its
\* properties are enumerated: a property already there keeps its place, a new
\* array index goes among the array indices in ascending order, which come
\* first, and any other new key goes to the end
ObjectSet(obj, key, value) ==
  IF OwnIndex(obj, "key", key) # 0
  THEN [obj EXCEPT ![OwnIndex(obj, "key", key)].count = value]
  ELSE IF IsArrayIndex(key)
  THEN LET before == {j \in 1..Len(obj) :
                        IsArrayIndex(obj[j].key) /\ IndexValue(obj[j].key) < IndexValue(key)}
       IN  Filter(obj, before, 1) \o <<[key |-> key, count |-> value]>>
             \o Filter(obj, (1..Len(obj)) \ before, 1)
  ELSE Append(obj, [key |-> key, count |-> value])

\* the property key book[f] makes: a number is written in decimal
PropertyKey(book, f) ==
  IF f \in {"level", "year"} THEN NumberToString(book[f]) ELSE book[f]

\* if (book[f]): the field is there and neither 0 nor the empty string
FieldTruthy(book, f) ==
  f \in DOMAIN book /\ (IF f \in {"level", "year"} THEN book[f] # 0 ELSE book[f] # <<>>)

\* books.forEach: the counts of field f over the books from book i on
RECURSIVE countLoop(_, _, _, _)
countLoop(books, f, i, obj) ==
  IF i > Len(books) THEN obj
  ELSE IF ~FieldTruthy(books[i], f) THEN countLoop(books, f, i + 1, obj)
  ELSE LET key == PropertyKey(books[i], f)
           old == IF OwnIndex(obj, "key", key) # 0
                  THEN obj[OwnIndex(obj, "key", key)].count ELSE 0
       IN  countLoop(books, f, i + 1, ObjectSet(obj, key, old + 1))

\* the position entry e takes in the entries sorted so far: after all of
\* them whose count is not smaller
SortedInsert(sorted, e) ==
  LET ahead == {j \in 1..Len(sorted) : sorted[j].count >= e.count}
  IN  Filter(sorted, ahead, 1) \o <<e>> \o Filter(sorted, (1..Len(sorted)) \ ahead, 1)

\* entries.sort(([,a], [,b]) => b - a): stable, by descending count
RECURSIVE sortByCount(_)
sortByCount(entries) ==
  IF entries = <<>> THEN <<>>
  ELSE SortedInsert(sortByCount(SubSeq(entries, 1, Len(entries) - 1)),
                    entries[Len(entries)])

\* Object.fromEntries(entries): the properties set one after the other
RECURSIVE fromEntries(_)
fromEntries(entries) ==
  IF entries = <<>> THEN <<>>
  ELSE ObjectSet(fromEntries(SubSeq(entries, 1, Len(entries) - 1)),
                 entries[Len(entries)].key, entries[Len(entries)].count)

\* the field of the book each breakdown counts
StatField ==
  [languages |-> "lang", levels |-> "level", authors |-> "author",
   publishers |-> "publisher", years |-> "year", locations |-> "location"]

\* getBookStatistics(): each breakdown as the listing of its properties
getBookStatistics(books) ==
  [k \in DOMAIN StatField \cup {"total_books"} |->
     IF k = "total_books" THEN Len(books)
     ELSE fromEntries(sortByCount(countLoop(books, StatField[k], 1, <<>>)))]

(***************************************************************************)
(* Queries of the library (part_002), on the dataset fetchLibrary          *)
(* returned: the cookbooks in the order of the JSON document, each         *)
(* [name, recipes], recipes the sequence of [key, recipe] in that order.   *)
(* A recipe has maybe title_de, title_en, transcript_de, thai and region.  *)
(***************************************************************************)

\* the value of a property inherited from Object.prototype: a function
InheritedValue == [type |-> "function", val |-> <<>>]

\* { ...recipe, cookbook: cookbookName, recipe_key: recipeKey }
WithKeys(recipe, cookbookName, recipeKey) ==
  [f \in DOMAIN recipe \cup {"cookbook", "recipe_key"} |->
     IF f = "cookbook" THEN cookbookName
     ELSE IF f = "recipe_key" THEN recipeKey
     ELSE recipe[f]]

\* getCookbookRecipes(cookbookName)
getCookbookRecipes(data, cookbookName) ==
  IF ~LookupTruthy(data, "name", cookbookName) THEN Throws("not found")
  ELSE IF OwnIndex(data, "name", cookbookName) # 0
  THEN Returns(data[OwnIndex(data, "name", cookbookName)].recipes)
  ELSE Returns(InheritedValue)

\* getRecipeByKey(cookbookName, recipeKey); the spread of a function has no
\* fields
getRecipeByKey(data, cookbookName, recipeKey) ==
  LET c == OwnIndex(data, "name", cookbookName)
      recipes == IF c # 0 THEN data[c].recipes ELSE <<>>
      r == OwnIndex(recipes, "key", recipeKey)
  IN  IF ~LookupTruthy(data, "name", cookbookName) THEN Throws("not found")
      ELSE IF ~LookupTruthy(recipes, "key", recipeKey) THEN Throws("not found")
      ELSE Returns(WithKeys(IF r # 0 THEN recipes[r].recipe ELSE [f \in {} |-> <<>>],
                            cookbookName, recipeKey))

\* `${recipe[f]}`: the field, or the text undefined when the recipe has none
TemplateText(recipe, f) ==
  IF f \in DOMAIN recipe THEN recipe[f]
  ELSE <<"u", "n", "d", "e", "f", "i", "n", "e", "d">>

\* searchText: the four fields joined by spaces, in lower case
searchText(recipe) ==
  ToLowerCase(TemplateText(recipe, "title_de") \o <<" ">>
                \o TemplateText(recipe, "title_en") \o <<" ">>
                \o TemplateText(recipe, "transcript_de") \o <<" ">>
                \o TemplateText(recipe, "thai"))

\* the body of the inner loop of searchRecipes pushes the recipe
Pushes(params, cookbookName, recipe) ==
  /\ ~(Truthy(params, "cookbook") /\ cookbookName # params.cookbook)
  /\ ~(Truthy(params, "region")
         /\ ~("region" \in DOMAIN recipe /\ recipe.region = params.region))
  /\ Truthy(params, "query") =>
       Includes(searchText(recipe), ToLowerCase(params.query))

\* the recipes the two loops over Object.entries visit from cookbook c on,
\* each as { ...recipe, cookbook: cookbookName, recipe_key: recipeKey }
RECURSIVE recipeLoop(_, _)
recipeLoop(data, c) ==
  IF c > Len(data) THEN <<>>
  ELSE [j \in 1..Len(data[c].recipes) |->
          WithKeys(data[c].recipes[j].recipe, data[c].name, data[c].recipes[j].key)]
         \o recipeLoop(data, c + 1)

\* searchRecipes(params)
searchRecipes(data, params) ==
  LET visited == recipeLoop(data, 1)
      results == Filter(visited,
                        {j \in 1..Len(visited) :
                           Pushes(params, visited[j].cookbook, visited[j])}, 1)
  IN  [total_results |-> Len(results), recipes |-> results]

\* getRecipesByRegion(region)
getRecipesByRegion(data, region) ==
  LET visited == recipeLoop(data, 1)
      results == Filter(visited,
                        {j \in 1..Len(visited) :
                           "region" \in DOMAIN visited[j] /\ visited[j].region = region}, 1)
  IN  [region |-> region, total_recipes |-> Len(results), recipes |-> results]

\* the loop of getCookbookStats over the recipes visited from recipe i on:
\* the count of each region, in the order the regions are first met
RECURSIVE regionLoop(_, _, _)
regionLoop(visited, i, obj) ==
  IF i > Len(visited) THEN obj
  ELSE IF ~Truthy(visited[i], "region") THEN regionLoop(visited, i + 1, obj)
  ELSE LET key == visited[i].region
           old == IF OwnIndex(obj, "key", key) # 0
                  THEN obj[OwnIndex(obj, "key", key)].count ELSE 0
       IN  regionLoop(visited, i + 1, ObjectSet(obj, key, old + 1))

\* the loop of getCookbookStats over the cookbooks from cookbook c on: the
\* number of recipes of each
RECURSIVE cookbookLoop(_, _, _)
cookbookLoop(data, c, obj) ==
  IF c > Len(data) THEN obj
  ELSE cookbookLoop(data, c + 1, ObjectSet(obj, data[c].name, Len(data[c].recipes)))

\* getCookbookStats(): each breakdown as the listing of its properties
getCookbookStats(data) ==
  LET by_region == regionLoop(recipeLoop(data, 1), 1, <<>>)
  IN  [total_cookbooks     |-> Len(data),
       total_recipes       |-> Len(recipeLoop(data, 1)),
       recipes_by_cookbook |-> cookbookLoop(data, 1, <<>>),
       recipes_by_region   |-> by_region,
       regions             |-> [j \in 1..Len(by_region) |-> by_region[j].key],
       cookbooks           |-> [j \in 1..Len(data) |-> data[j].name]]

(***************************************************************************)
(* Query harness: a query, its arguments and the dataset it runs on are    *)
(* drawn, then the query is evaluated once.  arg is                        *)
(* [op, data, term, limit, filters]; res becomes the one-element sequence  *)
(* of [ok, val]: the value returned, or ok = FALSE and the error thrown.   *)
(***************************************************************************)

\* largest limit handed to a query
MaxLimit == 3

\* most entries of a dataset
MaxEntries == 3

\* no criteria
NoFilters == [f \in {} |-> <<>>]

\* the entries the encyclopedia datasets are made of
QueryEntries ==
  {[thaiName |-> <<"k", "a">>],
   [thaiName |-> <<"p", "a">>, alternativeNames |-> << <<"K", "i">> >>],
   [thaiName |-> <<"t">>,
    de |-> [summary |-> <<"S", "k">>, tags |-> << <<"s">>, <<"K">> >>, regions |-> << <<"N">> >>]],
   [thaiName |-> <<"y">>,
    de |-> [regions |-> <<>>],
    en |-> [transcription |-> <<>>, tags |-> << <<"n">> >>, regions |-> << <<"k", "n">> >>]]}

\* the search terms, regions and tags asked for
QueryTerms == {<<"k">>, <<"K">>, <<"n">>, <<"z">>, <<>>}

EncyclopediaOps == {"searchEntries", "getEntriesByRegion", "getEntriesByTag", "getAllEntries"}

EncyclopediaQueries ==
  [op : EncyclopediaOps, data : StringsUpTo(QueryEntries, MaxEntries),
   term : QueryTerms, limit : 0..MaxLimit, filters : {NoFilters}]

\* most categories of a dictionary
MaxCategories == 2

\* most terms of a category
MaxTerms == 2

\* characters of Thai script
ThaiChars == {"U+0E01", "U+0E02", "U+0E03"}

\* the terms of the categories: two keys of Thai script, one a prefix of the
\* other, and a key in Latin letters
TermRecords ==
  {[thai |-> <<"U+0E01">>,
    details |-> [meaning_de |-> <<"E", "i">>, meaning_en |-> <<"e">>,
                 trans_de |-> <<"k">>, trans_en |-> <<"k">>]],
   [thai |-> <<"U+0E01", "U+0E02">>,
    details |-> [meaning_de |-> <<"R">>, meaning_en |-> <<"r">>,
                 trans_de |-> <<"K">>, trans_en |-> <<"k">>]],
   [thai |-> <<"K", "a">>,
    details |-> [meaning_de |-> <<"E", "i">>, meaning_en |-> <<"e">>,
                 trans_de |-> <<"k">>, trans_en |-> <<"k">>]]}

\* the keys of an object are distinct
DistinctKeys(pairs, k) ==
  \A i, j \in 1..Len(pairs) : pairs[i][k] = pairs[j][k] => i = j

TermLists ==
  {ts \in StringsUpTo(TermRecords, MaxTerms) : DistinctKeys(ts, "thai")}

CategoryNames == {<<"g">>, <<"o">>}

DictionaryDatasets ==
  {cs \in StringsUpTo([name : CategoryNames, terms : TermLists], MaxCategories) :
     DistinctKeys(cs, "name")}

\* the words asked for: the keys of the terms, a Thai term of no category, a
\* name inherited from Object.prototype and a Latin letter
DictionaryTerms ==
  {t.thai : t \in TermRecords} \cup {<<"U+0E03">>, <<"c", "o", "n", "s", "t", "r", "u", "c", "t", "o", "r">>, <<"K">>}

DictionaryQueries ==
  [op : {"translateWord"}, data : DictionaryDatasets, term : DictionaryTerms,
   limit : {0}, filters : {NoFilters}]
    \cup [op : {"searchDictionary"}, data : DictionaryDatasets, term : DictionaryTerms,
          limit : {0}, filters : {NoFilters, [category |-> <<"g">>]}]
    \cup [op : {"getCategory"}, data : DictionaryDatasets,
          term : {<<"g">>, <<"o">>, <<"x">>}, limit : {0}, filters : {NoFilters}]

\* most books of a dataset
MaxBooks == 3

\* the books the datasets are made of: two share an ISBN, one has none
BookRecords ==
  {[title |-> <<"K", "a">>, author |-> <<"A">>, lang |-> <<"d", "e">>, level |-> 1,
    year |-> 2020, publisher |-> <<"V">>, isbn |-> <<"1">>, location |-> <<"L">>],
   [title |-> <<"b">>, author |-> <<"a", "k">>, lang |-> <<"e", "n">>, level |-> 2,
    year |-> 2020, isbn |-> <<"1">>, text |-> <<"k", "a">>],
   [title |-> <<"k">>, lang |-> <<"d", "e">>, level |-> 1, year |-> 2021,
    publisher |-> <<"v">>, isbn |-> <<"2">>, description |-> <<"A">>,
    url |-> <<"u">>],
   [author |-> <<"K">>, lang |-> <<"d", "e">>]}

BookDatasets == StringsUpTo(BookRecords, MaxBooks)

\* the criteria of searchBooks: each given or not
BookFilters ==
  {MakeObject([query |-> q, language |-> l, level |-> v, author |-> a, year |-> y,
               publisher |-> b]) :
     q \in Opt({<<"K">>}), l \in Opt({<<"d", "e">>}), v \in Opt({<<"1">>}),
     a \in Opt({<<"a">>}), y \in Opt({<<"2", "0", "2", "0">>}), b \in Opt({<<"v">>, <<>>})}

BookQueries ==
  [op : {"getBookByIsbn"}, data : BookDatasets, term : {<<"1">>, <<"2">>, <<"9">>},
   limit : {0}, filters : {NoFilters}]
    \cup [op : {"searchBooks"}, data : BookDatasets, term : {<<>>}, limit : {0},
          filters : BookFilters]
    \cup [op : {"getBookStatistics"}, data : BookDatasets, term : {<<>>}, limit : {0},
          filters : {NoFilters}]

\* most cookbooks of a library
MaxCookbooks == 2

\* most recipes of a cookbook
MaxRecipes == 2

\* the recipes of the cookbooks
RecipeRecords ==
  {[title_de |-> <<"K", "a">>, title_en |-> <<"b">>, transcript_de |-> <<"x">>,
    thai |-> <<"U+0E01">>, region |-> <<"N">>],
   [title_de |-> <<"a">>, title_en |-> <<"k">>, region |-> <<"n">>],
   [title_de |-> <<"b">>, title_en |-> <<"b">>, transcript_de |-> <<"x">>,
    thai |-> <<"U+0E02">>]}

RecipeKeys == {<<"r", "1">>, <<"r", "2">>}

RecipeLists ==
  {rs \in StringsUpTo([key : RecipeKeys, recipe : RecipeRecords], MaxRecipes) :
     DistinctKeys(rs, "key")}

CookbookNames == {<<"c">>, <<"d">>}

LibraryDatasets ==
  {cs \in StringsUpTo([name : CookbookNames, recipes : RecipeLists], MaxCookbooks) :
     DistinctKeys(cs, "name")}

\* the names asked for: the names of the cookbooks and the keys of the
\* recipes, a name inherited from Object.prototype and a name of nothing
LibraryNames(own) ==
  own \cup {<<"c", "o", "n", "s", "t", "r", "u", "c", "t", "o", "r">>, <<"x">>}

\* the parameters of searchRecipes: each given or not
RecipeParams ==
  {MakeObject([query |-> q, region |-> r, cookbook |-> c]) :
     q \in Opt({<<"K">>, <<"a", " ", "b">>, <<"u", "n", "d">>, <<"z">>}),
     r \in Opt({<<"N">>, <<"n">>}),
     c \in Opt({<<"c">>, <<"C">>})}

LibraryQueries ==
  [op : {"getCookbookRecipes"}, data : LibraryDatasets, term : LibraryNames(CookbookNames),
   limit : {0}, filters : {NoFilters}]
    \cup [op : {"getRecipeByKey"}, data : LibraryDatasets,
          term : LibraryNames(CookbookNames), limit : {0},
          filters : [recipeKey : LibraryNames(RecipeKeys)]]
    \cup [op : {"searchRecipes"}, data : LibraryDatasets, term : {<<>>}, limit : {0},
          filters : RecipeParams]
    \cup [op : {"getRecipesByRegion"}, data : LibraryDatasets,
          term : {<<"N">>, <<"n">>, <<"s">>}, limit : {0}, filters : {NoFilters}]
    \cup [op : {"getCookbookStats"}, data : LibraryDatasets, term : {<<>>}, limit : {0},
          filters : {NoFilters}]

\* the answer of query q
Answer(q) ==
  CASE q.op = "searchEntries"      -> Returns(searchEntries(q.data, q.term, q.limit))
    [] q.op = "getEntriesByRegion" -> Returns(getEntriesByRegion(q.data, q.term, q.limit))
    [] q.op = "getEntriesByTag"    -> Returns(getEntriesByTag(q.data, q.term, q.limit))
    [] q.op = "getAllEntries"      -> Returns(getAllEntries(q.data, q.limit))
    [] q.op = "translateWord"      -> Returns(translateWord(q.data, q.term))
    [] q.op = "searchDictionary"   ->
         Returns(searchDictionary(q.data, q.term,
                                  IF "category" \in DOMAIN q.filters
                                  THEN q.filters.category ELSE <<>>))
    [] q.op = "getCategory"        -> getCategory(q.data, q.term)
    [] q.op = "getBookByIsbn"      -> getBookByIsbn(q.data, q.term)
    [] q.op = "searchBooks"        -> Returns(searchBooks(q.data, q.filters))
    [] q.op = "getBookStatistics"  -> Returns(getBookStatistics(q.data))
    [] q.op = "getCookbookRecipes" -> getCookbookRecipes(q.data, q.term)
    [] q.op = "getRecipeByKey"     -> getRecipeByKey(q.data, q.term, q.filters.recipeKey)
    [] q.op = "searchRecipes"      -> Returns(searchRecipes(q.data, q.filters))
    [] q.op = "getRecipesByRegion" -> Returns(getRecipesByRegion(q.data, q.term))
    [] q.op = "getCookbookStats"   -> Returns(getCookbookStats(q.data))

InitQuery ==
  /\ \/ arg \in EncyclopediaQueries
     \/ arg \in DictionaryQueries
     \/ arg \in BookQueries
     \/ arg \in LibraryQueries
  /\ res = <<>>
  /\ Parked

ApplyQuery ==
  /\ res = <<>>
  /\ res' = <<Answer(arg)>>
  /\ UNCHANGED <<arg, cache, now, got, impl, procs, fetchSeq, stored>>

SpecQuery == InitQuery /\ [][ApplyQuery]_vars

(***************************************************************************)
(* Properties of the transformers                                          *)
(***************************************************************************)

\* the value pass k of the harness was applied to
PassInput(k) == IF k = 1 THEN arg ELSE res[k - 1]

\* a string with a character that is not white space
NonBlank(s) == \E i \in 1..Len(s) : s[i] \notin WhiteSpace

\* an Amazon book with a target that is not blank
IsAmazonWithTarget(book) ==
  /\ "shop" \in DOMAIN book /\ book["shop"] = S_amazon
  /\ "target" \in DOMAIN book /\ NonBlank(book["target"])

\* what the book transform has to return for a book
BookRule(book, out) ==
  IF IsAmazonWithTarget(book)
  THEN /\ DOMAIN out = (DOMAIN book \cup {"url"}) \ {"target"}
       /\ out["url"] = AMAZON_URL_PREFIX \o book["target"]
       /\ \A f \in DOMAIN out \ {"url"} : out[f] = book[f]
  ELSE out = book

\* C8: an Amazon book with a non-blank target gets url = affiliate prefix +
\* target and loses target; every other book is returned as it was.
C8_BookUrlTransform ==
  \A k \in 1..Len(res) : BookRule(PassInput(k), res[k])

\* C8 witness: an Amazon book whose target has surrounding white space was
\* transformed, and so was a book with a white-space-only target
C8_Witness ==
  /\ Len(res) >= 1
  /\ IsAmazonWithTarget(arg)
  /\ arg["target"] = <<" ", "a">>
  /\ "url" \in DOMAIN res[1]

\* a relative image value: present, not empty, not starting with 'http'
IsRelativeImage(recipe) ==
  /\ "imageUrl" \in DOMAIN recipe
  /\ recipe["imageUrl"] # <<>>
  /\ ~StartsWith(recipe["imageUrl"], S_http)

\* the value with one leading '/' removed
StripOneSlash(v) == IF v # <<>> /\ v[1] = "/" THEN Tail(v) ELSE v

\* the image base URL ends with '/' and what follows it starts with '/'
DoubleSlashAtJoin(url) ==
  /\ Len(url) > Len(IMAGE_URL_PREFIX)
  /\ url[Len(IMAGE_URL_PREFIX)] = "/"
  /\ url[Len(IMAGE_URL_PREFIX) + 1] = "/"

\* C9 as claimed: a relative imageUrl becomes the image base URL followed by
\* the value less one leading '/', and the join never shows a double slash.
C9_Original ==
  \A k \in 1..Len(res) :
    IsRelativeImage(PassInput(k)) =>
      /\ res[k]["imageUrl"] = IMAGE_URL_PREFIX \o StripOneSlash(PassInput(k)["imageUrl"])
      /\ ~DoubleSlashAtJoin(res[k]["imageUrl"])

\* C9 as amended: a relative imageUrl becomes the image base URL followed by
\* the value less one leading '/'; the join shows a double slash exactly when
\* the value starts with two slashes.
C9_ImageUrlPrefix ==
  \A k \in 1..Len(res) :
    IsRelativeImage(PassInput(k)) =>
      /\ res[k]["imageUrl"] = IMAGE_URL_PREFIX \o StripOneSlash(PassInput(k)["imageUrl"])
      /\ DoubleSlashAtJoin(res[k]["imageUrl"])
           <=> StartsWith(PassInput(k)["imageUrl"], <<"/", "/">>)

\* C9 witness: an imageUrl with one leading slash was transformed
C9_Witness ==
  /\ Len(res) >= 1
  /\ "imageUrl" \in DOMAIN arg
  /\ arg["imageUrl"] = <<"/", "a">>
  /\ res[1]["imageUrl"] = IMAGE_URL_PREFIX \o <<"a">>

\* the character a percent escape stands for
PercentChar(code) ==
  CHOOSE c \in {":", "/", "?", "&", "=", "#", "%", " "} : PercentCode(c) = code

\* decodeURIComponent
RECURSIVE decodeURIComponent(_)
decodeURIComponent(s) ==
  IF s = <<>> THEN <<>>
  ELSE IF Head(s) = "%" /\ Len(s) >= 3
  THEN <<PercentChar(SubSeq(s, 1, 3))>> \o decodeURIComponent(SubSeq(s, 4, Len(s)))
  ELSE <<Head(s)>> \o decodeURIComponent(Tail(s))

\* the translate proxy URL for a target language, up to the embedded URL
ProxyHead(lang) == TRANSLATE_HEAD \o lang \o TRANSLATE_MID \o lang \o TRANSLATE_TAIL

\* url is a translate proxy URL for lang whose embedded target URL does not
\* contain marker
IsCleanProxy(url, lang, marker) ==
  /\ StartsWith(url, ProxyHead(lang))
  /\ ~Includes(decodeURIComponent(Substring(url, Len(ProxyHead(lang)))), marker)

\* C10: an absolute link with a trans=TH-DE (trans=TH-EN) marker is rewritten to
\* a translate proxy URL for de (en) whose embedded target URL no longer
\* contains that marker.
C10_TranslateLink ==
  \A k \in 1..Len(res) :
    LET link == PassInput(k)
    IN  IsAbsolute(link) /\ HasTransMarker(link) =>
          \/ /\ Includes(link, S_transTH \o S_DE)
             /\ IsCleanProxy(res[k], S_de, S_transTH \o S_DE)
          \/ /\ Includes(link, S_transTH \o S_EN)
             /\ IsCleanProxy(res[k], S_en, S_transTH \o S_EN)

\* C7: a transformer applied to its own result returns that result, here for
\* encyclopedia entries (SpecEntry)
C7_EntryIdempotent == Len(res) >= 2 => res[2] = res[1]

\* C7 for books (SpecBook) and recipes (SpecRecipe): every further pass returns
\* what it was given
C7_BookRecipeIdempotent == \A k \in 2..Len(res) : res[k] = res[k - 1]

(***************************************************************************)
(* Properties of the encyclopedia transform                                *)
(***************************************************************************)

\* out is what the first applicable rule of the link rewrite makes of link
FirstRule(link, out) ==
  IF IsAbsolute(link) /\ HasTransMarker(link)
  THEN \E lang \in {S_de, S_en} : StartsWith(out, ProxyHead(lang))
  ELSE IF IsAbsolute(link) THEN out = link
  ELSE IF StartsWith(link, S_reiskoch)
  THEN out = REISKOCH_HOST \o Substring(link, Len(S_reiskoch))
  ELSE IF StartsWith(link, S_aapdf)
  THEN out = BASE_URL \o PDF_PATH \o Substring(link, Len(S_aapdf))
  ELSE IF StartsWith(link, S_youtube)
  THEN out = YOUTUBE_WATCH \o Substring(link, Len(S_youtube))
  ELSE out = BASE_URL \o link

\* C11: the link rewrite classifies every link by the first rule that applies
\* (absolute with a trans marker, absolute, '/reiskoch/', '/aa-pdf/',
\* '/youtube/', anything else), and its result is an absolute http(s) URL.
C11_LinkClassification ==
  \A k \in 1..Len(res) : FirstRule(PassInput(k), res[k]) /\ IsAbsolute(res[k])

\* C11: a '/youtube/' link with a trans marker became a watch URL, and that
\* absolute URL, rewritten again, a translate proxy URL
C11_Witness ==
  /\ Len(res) = 2
  /\ StartsWith(arg, S_youtube) /\ HasTransMarker(arg)
  /\ res[1] = YOUTUBE_WATCH \o Substring(arg, Len(S_youtube))
  /\ \E lang \in {S_de, S_en} : StartsWith(res[2], ProxyHead(lang))

\* url contains '#' or '?' or ends with '/'
SlashClosed(url) ==
  Includes(url, <<"#">>) \/ Includes(url, <<"?">>) \/ EndsWith(url, <<"/">>)

\* the language sub-objects of an entry
Languages(entry) == {"de", "en"} \cap DOMAIN entry

\* C12: after the encyclopedia transform every URL in a relationship field of
\* the de and en sub-objects contains '#' or '?' or ends with '/' (a field that
\* holds the empty string holds no URL); the entries of the recipes field get
\* the link rewrite only, with no slash added.
C12_TrailingSlash ==
  \A k \in 1..Len(res) :
    \A l \in Languages(res[k]) :
      /\ \A f \in relationshipFields \cap DOMAIN res[k][l] :
           \A j \in 1..Len(res[k][l][f].items) :
             res[k][l][f].items[j] # <<>> => SlashClosed(res[k][l][f].items[j])
      /\ \A f \in recipeFields \cap DOMAIN res[k][l] :
           /\ Len(res[k][l][f].items) = Len(PassInput(k)[l][f].items)
           /\ \A j \in 1..Len(res[k][l][f].items) :
                res[k][l][f].items[j] = transformRecipeLink(PassInput(k)[l][f].items[j])

\* C12: the link '/k' got its slash as the url of the de sub-object and none as
\* an entry of its recipes
C12_Witness ==
  /\ Len(res) >= 1
  /\ "de" \in DOMAIN arg
  /\ {"url", "recipes"} \subseteq DOMAIN arg.de
  /\ arg.de.url.items = << <<"/", "k">> >>
  /\ arg.de.recipes.items = << <<"/", "k">> >>
  /\ res[1].de.url.items = << BASE_URL \o <<"/", "k", "/">> >>
  /\ res[1].de.recipes.items = << BASE_URL \o <<"/", "k">> >>

\* C27: each domain transform is pure: applying it to a raw record does not
\* modify that record, so after transform(r) the input r, its nested de and en
\* sub-objects included, equals its value before the call.
C27_TransformPure ==
  res # <<>> => res[1].raw = arg.r

(***************************************************************************)
(* Properties of the fetchers                                              *)
(***************************************************************************)

\* the domains
Domains == {"books", "dictionary", "library", "encyclopedia"}

\* per domain the transform applied once to each document of its source
DatasetsOf ==
  [d \in Domains |-> {Transform(d, RawDocs(d)[k]) : k \in 1..Len(RawDocs(d))}]

\* the datasets of the running implementation
Datasets == DatasetsOf[Domain(impl)]

\* the fetch of process p ended with a transport error or a status that is
\* not successful
FetchFailed(p) ==
  procs[p].resp.net = "error" \/ (procs[p].resp.net = "ok" /\ ~procs[p].resp.ok)

\* the fetch of process p ended with a successful status, a content type that
\* is not JSON and a body that parses
NotJson(p) ==
  /\ procs[p].resp.net = "ok"
  /\ procs[p].resp.ok
  /\ ~procs[p].resp.json
  /\ procs[p].resp.body # 0

\* C2: a query issued while the cache holds an unexpired dataset issues no
\* fetch, and a query issued while the cache is empty or expired issues exactly
\* one fetch.
C2_CacheOrFetch ==
  \A p \in Callers :
    procs[p].pc \in {"done", "failed"} =>
      procs[p].fetches = (IF procs[p].startedValid THEN 0 ELSE 1)

C4_Original ==
  \A p \in Callers : FetchFailed(p) => procs[p].pc = "failed"

\* C4: when the fetch fails (transport error or status not successful) the
\* query fails with an error and the fetch is not retried; only
\* book-info-server.js answers instead with the books it has cached, expired
\* or not, when it has some.
C4_FetchFailure ==
  \A p \in Callers :
    FetchFailed(p) =>
      /\ procs[p].fetches = 1
      /\ \/ procs[p].pc = "failed" /\ procs[p].snaps = <<>> /\ ~procs[p].stale
         \/ /\ impl = "srv_books"
            /\ procs[p].pc = "done"
            /\ procs[p].stale
            /\ stored.has
            /\ Len(procs[p].snaps) = 1

\* C4: a fetch failed after the dataset another query had stored expired, and
\* the query failed
C4_Witness ==
  /\ impl # "srv_books"
  /\ stored.has
  /\ now - stored.at >= TTL
  /\ \E p \in Callers :
       /\ FetchFailed(p)
       /\ procs[p].pc = "failed"
       /\ stored.by < procs[p].fid

\* C5: a response with a successful status whose content type is not JSON makes
\* the fetch fail: no dataset is returned and nothing is stored, in every
\* domain.
C5_ContentType ==
  \A p \in Callers :
    NotJson(p) => procs[p].pc = "failed" /\ procs[p].snaps = <<>> /\ stored.by # procs[p].fid

\* C6: in every server and domain a dataset is no longer served from the cache
\* once 5 minutes have passed since it was stored.
C6_FiveMinuteTtl ==
  \A p \in Callers : ~procs[p].lateHit

\* the callers that invoked their query while the cache was empty or expired
Missed == {p \in Callers : procs[p].pc # "idle" /\ ~procs[p].startedValid}

\* the answer of caller p is the transform of the document its own fetch got
OwnAnswer(p) ==
  /\ Succeeds(impl, procs[p].resp)
  /\ procs[p].snaps = <<Transform(Domain(impl), RawDocs(Domain(impl))[procs[p].resp.body])>>

C25_SingleSnapshot ==
  \A p \in Callers :
    \A k \in 1..Len(procs[p].snaps) : procs[p].snaps[k] = procs[p].snaps[1]

\* the fetch of caller p ends in this step, and not with a document
FailsNow(p) ==
  /\ procs[p].pc = "fetching"
  /\ procs'[p].pc # "fetching"
  /\ ~Succeeds(impl, procs'[p].resp)

C28_ValidatedFirst ==
  \A p \in Callers :
    procs[p].lacks =>
      /\ procs[p].pc = "rejected"
      /\ procs[p].fetches = 0
      /\ ~(stored.has /\ stored.by = procs[p].fid)

\* Thai-script string: not empty, every code point in the Thai block U+0E00..U+0E7F
IsThaiScript(str) == str # <<>> /\ \A i \in 1..Len(str) : str[i] \in 3584..3711

\* the table is the four regions with Thai-script and translation fields
FourRegions(t) ==
  /\ DOMAIN t = {"central", "north", "isaan", "south"}
  /\ \A r \in DOMAIN t :
       /\ IsThaiScript(t[r].thai)
       /\ \A f \in {"trans_de", "trans_en", "title_de", "title_en"} : t[r][f] # <<>>

\* the table is the six relationship types
SixRelationships(t) ==
  DOMAIN t = {"uses", "usedBy", "fits", "fittedBy", "variations", "variationOf"}

\* C13: list_regions always returns exactly the 4 entries central, north,
\* isaan, south with non-empty Thai-script and translation fields, and
\* list_relationships exactly the 6 fixed keys, whatever the dataset, the cache
\* and the remote source are: the query never fails.
C13_FixedTables ==
  \A p \in Callers :
    procs[p].op \in TableOps(impl) =>
      /\ procs[p].pc # "failed"
      /\ procs[p].op \in {"getAllRegions", "list_regions"} =>
           FourRegions(TableAnswer(procs[p].op))
      /\ procs[p].op \in {"getRelationshipTypes", "list_relationships"} =>
           SixRelationships(TableAnswer(procs[p].op))

(***************************************************************************)
(* Properties of the queries                                               *)
(***************************************************************************)

\* the smaller of two numbers
Min(a, b) == IF a < b THEN a ELSE b

\* entry e of the dataset matches the encyclopedia query q
MatchesQuery(q, e) ==
  CASE q.op = "searchEntries"      -> EntryMatches(e, ToLowerCase(q.term))
    [] q.op = "getEntriesByRegion" -> EntryHasIn(e, "regions", q.term)
    [] q.op = "getEntriesByTag"    -> EntryHasIn(e, "tags", q.term)
    [] q.op = "getAllEntries"      -> TRUE

\* the matching entries of the encyclopedia query q, in source order
Matching(q) ==
  LET Test(e) == MatchesQuery(q, e) IN SelectSeq(q.data, Test)

\* C14: for every limit L >= 0 searchEntries, getEntriesByRegion,
\* getEntriesByTag and getAllEntries return exactly the first min(L, m) of the
\* m matching entries in source order, so never more than L entries.
C14_Limit ==
  res # <<>> /\ arg.op \in EncyclopediaOps =>
    /\ res[1].val = SubSeq(Matching(arg), 1, Min(arg.limit, Len(Matching(arg))))
    /\ Len(res[1].val) <= arg.limit

\* t is a Thai term: not empty, of Thai script throughout
IsThaiTerm(t) == t # <<>> /\ \A i \in 1..Len(t) : t[i] \in ThaiChars

\* C15: search is a superset of exact-key lookup in the dictionary: for every
\* Thai term t for which translateWord(t) returns a record, searchDictionary(t)
\* with no category returns a result with the same category, Thai term and
\* fields.
C15_SearchSuperset ==
  res # <<>> /\ arg.op = "translateWord" /\ IsThaiTerm(arg.term) /\ res[1].val # NoData =>
    \E j \in 1..Len(searchDictionary(arg.data, arg.term, <<>>)) :
      searchDictionary(arg.data, arg.term, <<>>)[j] = res[1].val

\* C15: translateWord found the term in the second category, and the search
\* for it returns that record among others
C15_Witness ==
  /\ res # <<>> /\ arg.op = "translateWord" /\ IsThaiTerm(arg.term)
  /\ Len(arg.data) = 2
  /\ res[1].val # NoData
  /\ res[1].val.category = arg.data[2].name
  /\ Len(searchDictionary(arg.data, arg.term, <<>>)) > 1
  /\ \E j \in 1..Len(searchDictionary(arg.data, arg.term, <<>>)) :
       searchDictionary(arg.data, arg.term, <<>>)[j] = res[1].val

\* the categories of the dataset that have t as a key
CategoriesWith(data, t) ==
  {i \in 1..Len(data) : \E j \in 1..Len(data[i].terms) : data[i].terms[j].thai = t}

\* C16: translateWord(t) returns the record of the first category, in the
\* original order, that contains t as an exact key, with that category's name
\* attached, and absent when no category contains t; it raises no error.
C16_Translate ==
  res # <<>> /\ arg.op = "translateWord" =>
    /\ res[1].ok
    /\ CategoriesWith(arg.data, arg.term) = {} => res[1].val = NoData
    /\ CategoriesWith(arg.data, arg.term) # {} =>
         LET i == CHOOSE c \in CategoriesWith(arg.data, arg.term) :
                    \A d \in CategoriesWith(arg.data, arg.term) : c <= d
             j == CHOOSE n \in 1..Len(arg.data[i].terms) : arg.data[i].terms[n].thai = arg.term
         IN  res[1].val = Hit(arg.data[i].name, arg.term, arg.data[i].terms[j].details)

\* the get-by-key lookups
GetByKeyOps == {"getBookByIsbn", "getCookbookRecipes", "getRecipeByKey", "getCategory"}

\* the records of the dataset of q stored under the key of q, as
\* <<i>> or <<i, j>>: the position in the dataset, and in the cookbook
StoredUnder(q) ==
  CASE q.op = "getBookByIsbn" ->
         {<<i>> : i \in {j \in 1..Len(q.data) :
                           "isbn" \in DOMAIN q.data[j] /\ q.data[j].isbn = q.term}}
    [] q.op \in {"getCookbookRecipes", "getCategory"} ->
         {<<i>> : i \in {j \in 1..Len(q.data) : q.data[j].name = q.term}}
    [] q.op = "getRecipeByKey" ->
         {<<i, j>> : i \in {c \in 1..Len(q.data) : q.data[c].name = q.term},
                     j \in 1..MaxRecipes + 1} \cap
         {<<i, j>> \in (1..Len(q.data)) \X (1..MaxRecipes + 1) :
            /\ j <= Len(q.data[i].recipes)
            /\ q.data[i].recipes[j].key = q.filters.recipeKey}

\* v is the record at position at of the dataset of q
IsStored(q, at, v) ==
  CASE q.op = "getBookByIsbn" ->
         /\ v = q.data[at[1]]
         /\ \A o \in StoredUnder(q) : at[1] <= o[1]
    [] q.op = "getCookbookRecipes" -> v = q.data[at[1]].recipes
    [] q.op = "getRecipeByKey" ->
         /\ DOMAIN q.data[at[1]].recipes[at[2]].recipe \subseteq DOMAIN v
         /\ \A f \in DOMAIN q.data[at[1]].recipes[at[2]].recipe \ {"cookbook", "recipe_key"} :
              v[f] = q.data[at[1]].recipes[at[2]].recipe[f]
    [] q.op = "getCategory" ->
         /\ Len(v) = Len(q.data[at[1]].terms)
         /\ \A j \in 1..Len(v) :
              /\ v[j].thai = q.data[at[1]].terms[j].thai
              /\ \A f \in DOMAIN q.data[at[1]].terms[j].details :
                   v[j][f] = q.data[at[1]].terms[j].details[f]

\* C17: for every key a get-by-key lookup (getBookByIsbn, getCookbookRecipes,
\* getRecipeByKey, getCategory) returns the record stored under that key when
\* the dataset has one, the first match when an ISBN is duplicated, and fails
\* with a not-found error when it has none.
C17_GetByKey ==
  res # <<>> /\ arg.op \in GetByKeyOps =>
    IF StoredUnder(arg) = {} THEN ~res[1].ok
    ELSE /\ res[1].ok
         /\ \E at \in StoredUnder(arg) : IsStored(arg, at, res[1].val)

\* the criteria of searchBooks
BookCriteria == {"query", "language", "level", "author", "year", "publisher"}

\* the criteria given in filters
Given(filters) == {f \in BookCriteria : Truthy(filters, f)}

\* the books of q.data that satisfy every criterion given, in source order
Satisfying(q) ==
  LET Test(book) == \A f \in Given(q.filters) : Keeps(book, q.filters, f)
  IN  SelectSeq(q.data, Test)

\* C18: searchBooks(filters) returns, in source order, exactly the books that
\* satisfy every criterion given in filters, each criterion on its own; a
\* criterion not given does not filter, so with none every book is returned;
\* year and level are compared as strings of digits.
C18_SearchBooks ==
  res # <<>> /\ arg.op = "searchBooks" =>
    /\ res[1].ok
    /\ res[1].val = [j \in 1..Len(Satisfying(arg)) |-> BookView(Satisfying(arg)[j])]
    /\ Given(arg.filters) = {} => Len(res[1].val) = Len(arg.data)
    /\ \A j \in 1..Len(res[1].val) :
         /\ "year" \in Given(arg.filters) =>
              NumberToString(res[1].val[j].year) = arg.filters.year
         /\ "level" \in Given(arg.filters) =>
              NumberToString(res[1].val[j].level) = arg.filters.level

\* C18: level and year are given; the first book has the level but not the
\* year, the second has both, and the search returns the second only
C18_Witness ==
  /\ res # <<>> /\ arg.op = "searchBooks"
  /\ Given(arg.filters) = {"level", "year"}
  /\ Len(arg.data) = 2
  /\ Keeps(arg.data[1], arg.filters, "level") /\ ~Keeps(arg.data[1], arg.filters, "year")
  /\ Keeps(arg.data[2], arg.filters, "level") /\ Keeps(arg.data[2], arg.filters, "year")
  /\ res[1].val = <<BookView(arg.data[2])>>

\* strings a and b differ in letter case at most
SameFolded(a, b) == ToLowerCase(a) = ToLowerCase(b)

\* the recipe, visited with its keys attached, meets the region and cookbook
\* criteria of the library query q up to letter case, and its query if any
MeetsFolded(q, visited) ==
  IF q.op = "getRecipesByRegion"
  THEN "region" \in DOMAIN visited /\ SameFolded(visited.region, q.term)
  ELSE /\ Truthy(q.filters, "cookbook") => SameFolded(visited.cookbook, q.filters.cookbook)
       /\ Truthy(q.filters, "region") =>
            "region" \in DOMAIN visited /\ SameFolded(visited.region, q.filters.region)
       /\ Truthy(q.filters, "query") =>
            Includes(searchText(visited), ToLowerCase(q.filters.query))

\* C19: the string criteria of the library filters match without regard to
\* letter case: searchRecipes and getRecipesByRegion return every recipe whose
\* region, or cookbook name for the cookbook criterion, differs from the
\* criterion in letter case only.
C19_CaseInsensitive ==
  res # <<>> /\ arg.op \in {"searchRecipes", "getRecipesByRegion"} =>
    \A j \in 1..Len(recipeLoop(arg.data, 1)) :
      MeetsFolded(arg, recipeLoop(arg.data, 1)[j]) =>
        \E k \in 1..Len(res[1].val.recipes) :
          res[1].val.recipes[k] = recipeLoop(arg.data, 1)[j]

\* the fields searchRecipes looks for the query in
SearchedFields == {"title_de", "title_en", "transcript_de", "thai"}

\* one of the searched fields of the recipe contains q, letter case aside
SomeFieldContains(recipe, q) ==
  \E f \in SearchedFields \cap DOMAIN recipe :
    Includes(ToLowerCase(recipe[f]), ToLowerCase(q))

\* C20: searchRecipes with a query q returns a recipe if and only if at least
\* one of its four searched fields (title_de, title_en, transcript_de, thai)
\* contains q as a substring, letter case aside; a recipe in which no single
\* field contains q is never returned.
C20_QueryFields ==
  res # <<>> /\ arg.op = "searchRecipes" /\ Truthy(arg.filters, "query") =>
    \A j \in 1..Len(recipeLoop(arg.data, 1)) :
      LET visited == recipeLoop(arg.data, 1)[j]
          others  == [f \in DOMAIN arg.filters \ {"query"} |-> arg.filters[f]]
      IN  Pushes(others, visited.cookbook, visited) =>
            ((\E k \in 1..Len(res[1].val.recipes) : res[1].val.recipes[k] = visited)
               <=> SomeFieldContains(visited, arg.filters.query))

\* the counts of a breakdown never rise along its listing
Descending(breakdown) ==
  \A i, j \in 1..Len(breakdown) : i < j => breakdown[i].count >= breakdown[j].count

\* C21: in the result of getBookStatistics the breakdown of every dimension
\* (languages, levels, authors, publishers, years, locations) lists its
\* entries in order of descending count, for every book list.
C21_BookStatsSorted ==
  res # <<>> /\ arg.op = "getBookStatistics" =>
    \A k \in DOMAIN StatField : Descending(res[1].val[k])

\* C22: in the result of getCookbookStats the breakdowns recipes_by_cookbook
\* and recipes_by_region each list their entries in order of descending count.
C22_LibraryStatsSorted ==
  res # <<>> /\ arg.op = "getCookbookStats" =>
    /\ Descending(res[1].val.recipes_by_cookbook)
    /\ Descending(res[1].val.recipes_by_region)

(***************************************************************************)
(* Properties of the cache                                                 *)
(***************************************************************************)

\* what get() has to return at time t: the value of the most recent set when
\* it is less than ttl old and no clear followed it, absent otherwise
Expected(t) ==
  IF stored.has /\ t - stored.at < TTL THEN stored.value ELSE NoData

\* C1: get() returns the value of the most recent set when that set happened
\* less than ttl ago and no clear followed it, and absent otherwise, for every
\* value that can be stored.
C1_CacheGet == got.op = "get" => got.ret = Expected(got.at)

\* C1 for the values the servers store (objects and arrays): the same statement
C1_CacheGetObjects ==
  got.op = "get" /\ stored.value.type \in {"null", "object"} => got.ret = Expected(got.at)

\* C24: a get that finds the entry expired returns absent and leaves the
\* stored value and its store time as they are; only set and clear change the
\* slot, and a set overwrites both the value and the store time: the slot is
\* always what the most recent set or clear made it.
C24_GetKeepsSlot ==
  /\ cache.data = stored.value
  /\ cache.timestamp = stored.at
  /\ got.op = "get" /\ stored.has /\ got.at - stored.at >= TTL => got.ret = NoData
  /\ got.op = "set" => cache.timestamp = got.at /\ stored.has
  /\ got.op = "clear" => cache = EmptyCache

\* C24: a get found the entry expired and returned absent; the value and the
\* time of the set are still in the slot
C24_Witness ==
  /\ got.op = "get"
  /\ got.ret = NoData
  /\ stored.has /\ JsTruthy(stored.value)
  /\ got.at - stored.at >= TTL
  /\ cache = [data |-> stored.value, timestamp |-> stored.at]

\* C29: under concurrent fetch-on-miss the cached dataset is never replaced
\* by the response of a fetch that was issued before the fetch whose response
\* is cached, and the store time recorded for the cache never moves backwards.
C29_NoOlderOverwrite ==
  [][/\ (stored.has /\ stored' # stored) => stored'.by > stored.by
     /\ cache'.timestamp >= cache.timestamp]_vars

\* C29, the first half alone: the fetch whose response is cached was issued
\* after every fetch whose response was cached before
C29_IssueOrder ==
  [][(stored.has /\ stored' # stored) => stored'.by > stored.by]_vars

\* C29, the second half alone: the store time of the cache never decreases
C29_StoreTime == [][cache'.timestamp >= cache.timestamp]_vars

====
